---- MODULE Spec2Model ----
(***************************************************************************)
(* Session state and request-admission pipeline of the workout-coach       *)
(* agent (src/agent.py): rate limiter, input validator, usage statistics,  *)
(* profile extraction, context window, timeout-bounded invocation of the   *)
(* reasoning step and the memory update, with the four backing files.      *)
(*                                                                         *)
(* Text is a sequence of one-character strings, so trimming, lower-casing, *)
(* substring search and number formatting are computed, not assumed.       *)
(* Time is counted in ticks of 1/TicksPerSecond second.                    *)
(***************************************************************************)
EXTENDS Integers, Sequences, FiniteSets, TLC

VARIABLES
    now,            \* time.time(), in ticks
    request_times,  \* in-memory rate windows: session_id -> timestamps
    user_memory,    \* in-memory conversation memory: session_id -> turns
    files,          \* the four backing files (memory, profiles, usage, rate)
    alarm,          \* deadline of the pending SIGALRM, NoAlarm when none
    sigalrm,        \* the handler installed for SIGALRM
    pc,             \* per caller: where its chat call stands
    call,           \* per caller: the locals of its current / last chat call
    ret,            \* per caller: what its last chat call returned
    tally,          \* per session: calls made, admitted, counted (history variable)
    probe           \* the last direct call of one function: arguments and result

vars == <<now, request_times, user_memory, files, alarm, sigalrm, pc, call, ret,
          tally, probe>>

-----------------------------------------------------------------------------
(* Program constants *)

max_requests == 20
window == 60
timeout_seconds == 30
max_messages == 20
MemoryCap == 50
RecentTurns == 10
MinInputLen == 2
MentionCap == 2

(* Model bounds *)

TicksPerSecond == 2
MaxTime == 3
MaxCalls == 2
BurstCalls == 22
RateCalls == 41
HistLen == 3
ProfileCalls == 3
RoundTripLen == 2
TextLen == 3
AlternateCalls == 27

-----------------------------------------------------------------------------
(* Fixed texts *)

ClarificationMsg ==
    <<"C", "o", "u", "l", "d", " ", "y", "o", "u", " ", "p", "l", "e", "a", "s", "e", " ", "p",
      "r", "o", "v", "i", "d", "e", " ", "a", " ", "m", "o", "r", "e", " ", "d", "e", "t", "a",
      "i", "l", "e", "d", " ", "r", "e", "q", "u", "e", "s", "t", "?">>

GreetingMsg ==
    <<"H", "e", "l", "l", "o", "!", " ", "I", "'", "m", " ", "y", "o", "u", "r", " ", "A", "I",
      " ", "p", "e", "r", "s", "o", "n", "a", "l", " ", "t", "r", "a", "i", "n", "e", "r", ".",
      " ", "H", "o", "w", " ", "c", "a", "n", " ", "I", " ", "h", "e", "l", "p", " ", "y", "o",
      "u", " ", "w", "i", "t", "h", " ", "y", "o", "u", "r", " ", "w", "o", "r", "k", "o", "u",
      "t", " ", "t", "o", "d", "a", "y", "?", " ", "I", " ", "c", "a", "n", " ", "s", "u", "g",
      "g", "e", "s", "t", " ", "e", "x", "e", "r", "c", "i", "s", "e", "s", ",", " ", "c", "r",
      "e", "a", "t", "e", " ", "w", "o", "r", "k", "o", "u", "t", " ", "p", "l", "a", "n", "s",
      ",", " ", "a", "d", "j", "u", "s", "t", " ", "t", "r", "a", "i", "n", "i", "n", "g", " ",
      "v", "o", "l", "u", "m", "e", ",", " ", "a", "n", "d", " ", "t", "r", "a", "c", "k", " ",
      "y", "o", "u", "r", " ", "p", "r", "o", "g", "r", "e", "s", "s", "!">>

DefaultOutput ==
    <<"I", "'", "m", " ", "n", "o", "t", " ", "s", "u", "r", "e", " ", "h", "o", "w", " ", "t",
      "o", " ", "r", "e", "s", "p", "o", "n", "d", " ", "t", "o", " ", "t", "h", "a", "t", ".",
      " ", "C", "o", "u", "l", "d", " ", "y", "o", "u", " ", "r", "e", "p", "h", "r", "a", "s",
      "e", "?">>

TimeoutMsg ==
    <<"I", "'", "m", " ", "t", "a", "k", "i", "n", "g", " ", "t", "o", "o", " ", "l", "o", "n",
      "g", " ", "t", "o", " ", "p", "r", "o", "c", "e", "s", "s", " ", "t", "h", "a", "t", ".",
      " ", "C", "o", "u", "l", "d", " ", "y", "o", "u", " ", "t", "r", "y", " ", "a", "s", "k",
      "i", "n", "g", " ", "a", " ", "s", "i", "m", "p", "l", "e", "r", " ", "q", "u", "e", "s",
      "t", "i", "o", "n", " ", "o", "r", " ", "b", "r", "e", "a", "k", "i", "n", "g", " ", "i",
      "t", " ", "i", "n", "t", "o", " ", "p", "a", "r", "t", "s", "?">>

ApologyMsg ==
    <<"I", "'", "m", " ", "h", "a", "v", "i", "n", "g", " ", "t", "r", "o", "u", "b", "l", "e",
      " ", "p", "r", "o", "c", "e", "s", "s", "i", "n", "g", " ", "t", "h", "a", "t", " ", "r",
      "e", "q", "u", "e", "s", "t", ".", " ", "C", "o", "u", "l", "d", " ", "y", "o", "u", " ",
      "r", "e", "p", "h", "r", "a", "s", "e", " ", "i", "t", " ", "o", "r", " ", "t", "r", "y",
      " ", "a", "s", "k", "i", "n", "g", " ", "s", "o", "m", "e", "t", "h", "i", "n", "g", " ",
      "e", "l", "s", "e", "?">>

RateLimitHead ==
    <<"R", "a", "t", "e", " ", "l", "i", "m", "i", "t", " ", "e", "x", "c", "e", "e", "d", "e",
      "d", ".", " ", "P", "l", "e", "a", "s", "e", " ", "w", "a", "i", "t", " ">>

RateLimitTail ==
    <<" ", "s", "e", "c", "o", "n", "d", "s", " ", "b", "e", "f", "o", "r", "e", " ", "t", "r",
      "y", "i", "n", "g", " ", "a", "g", "a", "i", "n", ".">>

MentionHead ==
    <<"\n", "[", "U", "s", "e", "r", " ", "h", "a", "s", " ", "m", "e", "n", "t", "i", "o",
      "n", "e", "d", ":", " ">>

SummaryHead ==
    <<"[", "E", "a", "r", "l", "i", "e", "r", " ", "i", "n", " ", "c", "o", "n", "v", "e", "r",
      "s", "a", "t", "i", "o", "n", ":", " ">>

SummaryTail ==
    <<" ", "m", "e", "s", "s", "a", "g", "e", "s", " ", "e", "x", "c", "h", "a", "n", "g", "e",
      "d", " ", "a", "b", "o", "u", "t", " ", "w", "o", "r", "k", "o", "u", "t", " ", "p", "l",
      "a", "n", "n", "i", "n", "g", "]">>

TimedOutHead ==
    <<"O", "p", "e", "r", "a", "t", "i", "o", "n", " ", "t", "i", "m", "e", "d", " ", "o", "u",
      "t", " ", "a", "f", "t", "e", "r", " ">>

TimedOutTail ==
    <<" ", "s", "e", "c", "o", "n", "d", "s">>

goal_keywords ==
    << << <<"m", "u", "s", "c", "l", "e">>,
          <<"m", "u", "s", "c", "l", "e", " ", "g", "a", "i", "n">> >>,
       << <<"s", "t", "r", "e", "n", "g", "t", "h">>,
          <<"s", "t", "r", "e", "n", "g", "t", "h">> >>,
       << <<"l", "o", "s", "e", " ", "w", "e", "i", "g", "h", "t">>,
          <<"f", "a", "t", " ", "l", "o", "s", "s">> >>,
       << <<"f", "a", "t", " ", "l", "o", "s", "s">>,
          <<"f", "a", "t", " ", "l", "o", "s", "s">> >>,
       << <<"e", "n", "d", "u", "r", "a", "n", "c", "e">>,
          <<"e", "n", "d", "u", "r", "a", "n", "c", "e">> >>,
       << <<"c", "a", "r", "d", "i", "o">>,
          <<"c", "a", "r", "d", "i", "o">> >> >>

experience_keywords ==
    << << <<"b", "e", "g", "i", "n", "n", "e", "r">>,
          <<"b", "e", "g", "i", "n", "n", "e", "r">> >>,
       << <<"i", "n", "t", "e", "r", "m", "e", "d", "i", "a", "t", "e">>,
          <<"i", "n", "t", "e", "r", "m", "e", "d", "i", "a", "t", "e">> >>,
       << <<"a", "d", "v", "a", "n", "c", "e", "d">>,
          <<"a", "d", "v", "a", "n", "c", "e", "d">> >>,
       << <<"n", "e", "w", " ", "t", "o">>,
          <<"b", "e", "g", "i", "n", "n", "e", "r">> >>,
       << <<"j", "u", "s", "t", " ", "s", "t", "a", "r", "t", "e", "d">>,
          <<"b", "e", "g", "i", "n", "n", "e", "r">> >> >>

equipment_keywords ==
    << <<"d", "u", "m", "b", "b", "e", "l", "l", "s">>,
       <<"b", "a", "r", "b", "e", "l", "l">>,
       <<"k", "e", "t", "t", "l", "e", "b", "e", "l", "l">>,
       <<"r", "e", "s", "i", "s", "t", "a", "n", "c", "e", " ", "b", "a", "n", "d", "s">>,
       <<"g", "y", "m">>,
       <<"h", "o", "m", "e">>,
       <<"b", "o", "d", "y", "w", "e", "i", "g", "h", "t">>,
       <<"m", "a", "c", "h", "i", "n", "e", "s">> >>

limitation_keywords ==
    << <<"i", "n", "j", "u", "r", "y">>,
       <<"p", "a", "i", "n">>,
       <<"h", "u", "r", "t">>,
       <<"s", "o", "r", "e">>,
       <<"b", "a", "d", " ", "k", "n", "e", "e">>,
       <<"b", "a", "c", "k", " ", "p", "a", "i", "n">>,
       <<"s", "h", "o", "u", "l", "d", "e", "r">>,
       <<"c", "a", "n", "'", "t", " ", "d", "o">> >>

greetings ==
    { <<"h", "i">>,
       <<"h", "e", "l", "l", "o">>,
       <<"h", "e", "y">>,
       <<"h", "i", "i">>,
       <<"h", "a", "i">>,
       <<"y", "o">>,
       <<"g", "o", "o", "d", " ", "m", "o", "r", "n", "i", "n", "g">>,
       <<"g", "o", "o", "d", " ", "a", "f", "t", "e", "r", "n", "o", "o", "n">>,
       <<"g", "o", "o", "d", " ", "e", "v", "e", "n", "i", "n", "g">> }

InvalidInput ==
    <<"1", "2">>

GreetingInput ==
    <<"H", "e", "l", "l", "o", " ">>

PlainInput ==
    <<"t", "e", "s", "t", " ", "0">>

KneeInput ==
    <<"M", "y", " ", "k", "n", "e", "e", " ", "h", "u", "r", "t">>

ShortOutput ==
    <<"T", "r", "y", " ", "r", "e", "s", "t">>

LongOutput ==
    <<"D", "o", " ", "3", "x", "1", "0", " ", "s", "q", "u", "a", "t", "s">>

FailureText ==
    <<"C", "o", "n", "n", "e", "c", "t", "i", "o", "n", " ", "r", "e", "s", "e", "t">>

MainThreadOnly ==
    <<"s", "i", "g", "n", "a", "l", " ", "o", "n", "l", "y", " ", "w", "o", "r", "k", "s", " ",
      "i", "n", " ", "m", "a", "i", "n", " ", "t", "h", "r", "e", "a", "d", " ", "o", "f", " ",
      "t", "h", "e", " ", "m", "a", "i", "n", " ", "i", "n", "t", "e", "r", "p", "r", "e", "t",
      "e", "r">>

-----------------------------------------------------------------------------
(* Text primitives (Python str operations) *)

UpperCase ==
    <<"A", "B", "C", "D", "E", "F", "G", "H", "I", "J", "K", "L", "M",
      "N", "O", "P", "Q", "R", "S", "T", "U", "V", "W", "X", "Y", "Z">>

LowerCase ==
    <<"a", "b", "c", "d", "e", "f", "g", "h", "i", "j", "k", "l", "m",
      "n", "o", "p", "q", "r", "s", "t", "u", "v", "w", "x", "y", "z">>

Digits == <<"0", "1", "2", "3", "4", "5", "6", "7", "8", "9">>

Range(f) == {f[i] : i \in DOMAIN f}

\* c.isalpha()
isalpha(c) == c \in Range(UpperCase) \cup Range(LowerCase)

\* whitespace as str.strip() sees it
isspace(c) == c \in {" ", "\n", "\t"}

LowerChar(c) ==
    IF c \in Range(UpperCase)
    THEN LowerCase[CHOOSE i \in DOMAIN UpperCase : UpperCase[i] = c]
    ELSE c

\* text.lower()
lower(text) == [i \in DOMAIN text |-> LowerChar(text[i])]

\* text.strip()
strip(text) ==
    LET keep == {i \in DOMAIN text : ~isspace(text[i])}
    IN  IF keep = {} THEN <<>>
        ELSE LET lo == CHOOSE i \in keep : \A j \in keep : i <= j
                 hi == CHOOSE i \in keep : \A j \in keep : j <= i
             IN  SubSeq(text, lo, hi)

\* needle in text (substring)
Contains(text, needle) ==
    \E i \in 0..(Len(text) - Len(needle)) :
        \A j \in 1..Len(needle) : text[i + j] = needle[j]

\* x in list
InList(list, x) == \E i \in DOMAIN list : list[i] = x

\* list[-n:]
Last(list, n) ==
    IF n = 0 \/ Len(list) <= n THEN list
    ELSE SubSeq(list, Len(list) - n + 1, Len(list))

\* list[:n]
First(list, n) == IF Len(list) <= n THEN list ELSE SubSeq(list, 1, n)

RECURSIVE join(_, _)
\* sep.join(parts)
join(sep, parts) ==
    IF parts = <<>> THEN <<>>
    ELSE IF Len(parts) = 1 THEN parts[1]
    ELSE parts[1] \o sep \o join(sep, Tail(parts))

RECURSIVE str(_)
\* str(n) / f"{n}" of an integer
str(n) ==
    IF n < 0 THEN <<"-">> \o str(0 - n)
    ELSE IF n < 10 THEN <<Digits[n + 1]>>
    ELSE str(n \div 10) \o <<Digits[(n % 10) + 1]>>

\* int(x) of the rational num/den: truncation toward zero
int(num, den) ==
    IF num >= 0 THEN num \div den ELSE 0 - ((0 - num) \div den)

-----------------------------------------------------------------------------
(* Dictionaries: functions with a finite domain of keys *)

EmptyDict == [k \in {} |-> <<>>]

\* d.get(k, default)
Get(d, k, default) == IF k \in DOMAIN d THEN d[k] ELSE default

\* d[k] = v
Put(d, k, v) == [x \in (DOMAIN d) \cup {k} |-> IF x = k THEN v ELSE d[x]]

-----------------------------------------------------------------------------
(* Persistent store: one backing file per store *)

MEMORY_FILE == "user_memory.json"
USER_PROFILES == "user_profiles.json"
USAGE_STATS == "usage_stats.json"
RATE_LIMIT_FILE == "rate_limits.json"

FileNames == {MEMORY_FILE, USER_PROFILES, USAGE_STATS, RATE_LIMIT_FILE}

AbsentFile == [exists |-> FALSE, parses |-> FALSE, data |-> EmptyDict]

FileOf(mapping) == [exists |-> TRUE, parses |-> TRUE, data |-> mapping]

\* Load taking whatever an unparsable file seems to hold
Load_unchecked(file) == IF file.exists THEN file.data ELSE EmptyDict

\* load_memory / load_user_profiles / load_usage_stats / load_rate_limits:
\* the mapping in the file, the empty mapping when it is absent or unparsable
Load(file) == IF file.exists /\ file.parses THEN file.data ELSE EmptyDict

\* a file cut short while it was written: it exists and does not parse; data is
\* the mapping its text was meant to hold
TornFile(mapping) == [exists |-> TRUE, parses |-> FALSE, data |-> mapping]

\* how an attempt to write a file can end: written in full, refused at open()
\* with the old file untouched, or cut short after open() emptied the file
SaveOutcomes == {"written", "refused", "torn"}

\* save_memory / save_user_profiles / save_usage_stats / save_rate_limits:
\* open(name, "w") and json.dump; a failure is printed and swallowed
Save(file, mapping, how) ==
    IF how = "written" THEN FileOf(mapping)
    ELSE IF how = "refused" THEN file
    ELSE TornFile(mapping)

-----------------------------------------------------------------------------
(* Rate limiter *)

\* Prune keeping a timestamp that is exactly one window old (<= for <)
Prune_keeps_boundary(times, t) ==
    SelectSeq(times, LAMBDA x : t - x <= window * TicksPerSecond)

\* Prune dropping a timestamp one tick before it is a window old
Prune_one_tick_early(times, t) ==
    SelectSeq(times, LAMBDA x : t - x < window * TicksPerSecond - 1)

\* [t for t in request_times[session_id] if now - t < window]
Prune(times, t) ==
    SelectSeq(times, LAMBDA x : t - x < window * TicksPerSecond)

\* int(window - (now - request_times[session_id][0]))
WaitTime(times, t) ==
    int(window * TicksPerSecond - (t - times[1]), TicksPerSecond)

RateLimitMessage(wait_time) == RateLimitHead \o str(wait_time) \o RateLimitTail

\* check_rate_limit with the admission test off by one (> for >=)
check_rate_limit_admits_one_more(rt, session_id, t) ==
    LET pruned == Prune(Get(rt, session_id, <<>>), t)
    IN  IF Len(pruned) > max_requests
        THEN [allowed |-> FALSE,
              message |-> RateLimitMessage(WaitTime(pruned, t)),
              request_times |-> Put(rt, session_id, pruned)]
        ELSE [allowed |-> TRUE,
              message |-> <<>>,
              request_times |-> Put(rt, session_id, Append(pruned, t))]

\* check_rate_limit recording the request before it decides
check_rate_limit_counts_rejected(rt, session_id, t) ==
    LET pruned == Prune(Get(rt, session_id, <<>>), t)
    IN  IF Len(pruned) >= max_requests
        THEN [allowed |-> FALSE,
              message |-> RateLimitMessage(WaitTime(pruned, t)),
              request_times |-> Put(rt, session_id, Append(pruned, t))]
        ELSE [allowed |-> TRUE,
              message |-> <<>>,
              request_times |-> Put(rt, session_id, Append(pruned, t))]

\* check_rate_limit putting the new timestamp in front of the window
check_rate_limit_newest_first(rt, session_id, t) ==
    LET pruned == Prune(Get(rt, session_id, <<>>), t)
    IN  IF Len(pruned) >= max_requests
        THEN [allowed |-> FALSE,
              message |-> RateLimitMessage(WaitTime(pruned, t)),
              request_times |-> Put(rt, session_id, pruned)]
        ELSE [allowed |-> TRUE,
              message |-> <<>>,
              request_times |-> Put(rt, session_id, <<t>> \o pruned)]

\* check_rate_limit(session_id): the verdict, the message and the new windows
check_rate_limit(rt, session_id, t) ==
    LET pruned == Prune(Get(rt, session_id, <<>>), t)
    IN  IF Len(pruned) >= max_requests
        THEN [allowed |-> FALSE,
              message |-> RateLimitMessage(WaitTime(pruned, t)),
              request_times |-> Put(rt, session_id, pruned)]
        ELSE [allowed |-> TRUE,
              message |-> <<>>,
              request_times |-> Put(rt, session_id, Append(pruned, t))]

-----------------------------------------------------------------------------
(* Input validator *)

is_valid_input(text) ==
    IF text = <<>> \/ Len(strip(text)) < MinInputLen
    THEN FALSE
    ELSE LET has_letters == \E i \in DOMAIN text : isalpha(text[i])
             has_content == Len(strip(text)) >= MinInputLen
         IN  has_letters /\ has_content

\* is_greeting comparing the text as typed
is_greeting_as_typed(text) == strip(text) \in greetings

is_greeting(text) == lower(strip(text)) \in greetings

-----------------------------------------------------------------------------
(* Usage statistics *)

\* update_usage_stats starting every time from a fresh record
update_usage_stats_restarts(stats, session_id, t) ==
    Put(stats, session_id,
        [total_requests |-> 1, first_seen |-> t, last_seen |-> t])

\* update_usage_stats(session_id) on the mapping loaded from the usage file
\* update_usage_stats adding 2 to the counter
update_usage_stats_counts_twice(stats, session_id, t) ==
    LET rec == Get(stats, session_id,
                   [total_requests |-> 0, first_seen |-> t, last_seen |-> t])
    IN  Put(stats, session_id,
            [rec EXCEPT !.total_requests = @ + 2, !.last_seen = t])

\* update_usage_stats(session_id) on the mapping loaded from the usage file
update_usage_stats(stats, session_id, t) ==
    LET rec == Get(stats, session_id,
                   [total_requests |-> 0, first_seen |-> t, last_seen |-> t])
    IN  Put(stats, session_id,
            [rec EXCEPT !.total_requests = @ + 1, !.last_seen = t])

-----------------------------------------------------------------------------
(* Profile extractor *)

NewProfile(t) ==
    [goals |-> <<>>, experience_level |-> <<"u", "n", "k", "n", "o", "w", "n">>,
     equipment |-> <<>>, limitations |-> <<>>, preferences |-> <<>>,
     last_updated |-> t]

\* recent_messages scanning the whole history
recent_messages_everything(chat_history) == chat_history

\* chat_history[-10:] if len(chat_history) > 10 else chat_history
recent_messages(chat_history) ==
    IF Len(chat_history) > RecentTurns
    THEN Last(chat_history, RecentTurns) ELSE chat_history

HumanTexts(turns) ==
    LET humans == SelectSeq(turns, LAMBDA turn : turn[1] = "human")
    IN  [i \in DOMAIN humans |-> humans[i][2]]

\* " ".join([msg for role, msg in recent_messages if role == "human"]).lower()
all_text(turns) == lower(join(<<" ">>, HumanTexts(turns)))

RECURSIVE ExtractGoals_repeats(_, _, _)
\* ExtractGoals appending the goal of every keyword found
ExtractGoals_repeats(goals, text, i) ==
    IF i > Len(goal_keywords) THEN goals
    ELSE LET keyword == goal_keywords[i][1]
             goal == goal_keywords[i][2]
         IN  IF Contains(text, keyword)
             THEN ExtractGoals_repeats(Append(goals, goal), text, i + 1)
             ELSE ExtractGoals_repeats(goals, text, i + 1)

RECURSIVE ExtractGoals(_, _, _)
\* for keyword, goal in goal_keywords.items(): ... goals.append(goal)
ExtractGoals(goals, text, i) ==
    IF i > Len(goal_keywords) THEN goals
    ELSE LET keyword == goal_keywords[i][1]
             goal == goal_keywords[i][2]
         IN  IF Contains(text, keyword) /\ ~InList(goals, goal)
             THEN ExtractGoals(Append(goals, goal), text, i + 1)
             ELSE ExtractGoals(goals, text, i + 1)

\* ExtractExperience without the break: the last keyword of the table wins
ExtractExperience_last_match(level, text) ==
    LET hits == {i \in DOMAIN experience_keywords :
                    Contains(text, experience_keywords[i][1])}
    IN  IF hits = {} THEN level
        ELSE experience_keywords[CHOOSE i \in hits : \A j \in hits : j <= i][2]

\* for keyword, level in experience_keywords.items(): ... break
ExtractExperience(level, text) ==
    LET hits == {i \in DOMAIN experience_keywords :
                    Contains(text, experience_keywords[i][1])}
    IN  IF hits = {} THEN level
        ELSE experience_keywords[CHOOSE i \in hits : \A j \in hits : i <= j][2]

RECURSIVE ExtractEquipment(_, _, _)
\* for equipment in equipment_keywords: ... equipment.append(equipment)
ExtractEquipment(equipment, text, i) ==
    IF i > Len(equipment_keywords) THEN equipment
    ELSE LET item == equipment_keywords[i]
         IN  IF Contains(text, item) /\ ~InList(equipment, item)
             THEN ExtractEquipment(Append(equipment, item), text, i + 1)
             ELSE ExtractEquipment(equipment, text, i + 1)

\* for role, msg in recent_messages: first human message holding the keyword
\* that is not recorded yet is appended, and only then the scan breaks
ScanTurns(limitations, turns, keyword) ==
    LET hits == {i \in DOMAIN turns :
                    /\ turns[i][1] = "human"
                    /\ Contains(lower(turns[i][2]), keyword)
                    /\ ~InList(limitations, turns[i][2])}
    IN  IF hits = {} THEN limitations
        ELSE Append(limitations,
                    turns[CHOOSE i \in hits : \A j \in hits : i <= j][2])

RECURSIVE ExtractLimitations(_, _, _, _)
\* for keyword in limitation_keywords: if keyword in all_text: ...
ExtractLimitations(limitations, turns, text, i) ==
    IF i > Len(limitation_keywords) THEN limitations
    ELSE LET keyword == limitation_keywords[i]
         IN  IF Contains(text, keyword)
             THEN ExtractLimitations(ScanTurns(limitations, turns, keyword),
                                     turns, text, i + 1)
             ELSE ExtractLimitations(limitations, turns, text, i + 1)

\* extract_user_context starting from a fresh profile on every call
extract_user_context_forgets(profiles, session_id, chat_history, t) ==
    LET profile == NewProfile(t)
        turns == recent_messages(chat_history)
        text == all_text(turns)
    IN  Put(profiles, session_id,
            [profile EXCEPT
                !.goals = ExtractGoals(@, text, 1),
                !.experience_level = ExtractExperience(@, text),
                !.equipment = ExtractEquipment(@, text, 1),
                !.limitations = ExtractLimitations(@, turns, text, 1),
                !.last_updated = t])

\* extract_user_context(session_id, chat_history) on the mapping loaded from
\* the profile file: the new mapping (the returned profile is its entry)
extract_user_context(profiles, session_id, chat_history, t) ==
    LET profile == Get(profiles, session_id, NewProfile(t))
        turns == recent_messages(chat_history)
        text == all_text(turns)
    IN  Put(profiles, session_id,
            [profile EXCEPT
                !.goals = ExtractGoals(@, text, 1),
                !.experience_level = ExtractExperience(@, text),
                !.equipment = ExtractEquipment(@, text, 1),
                !.limitations = ExtractLimitations(@, turns, text, 1),
                !.last_updated = t])

-----------------------------------------------------------------------------
(* Context window builder *)

TypedMessage(turn) ==
    IF turn[1] = "human"
    THEN [type |-> "HumanMessage", content |-> turn[2]]
    ELSE [type |-> "AIMessage", content |-> turn[2]]

Summary(older_count) == SummaryHead \o str(older_count) \o SummaryTail

\* prepare_chat_history with a summary that counts every turn
prepare_chat_history_counts_all(chat_history, limit) ==
    IF Len(chat_history) <= limit
    THEN [i \in DOMAIN chat_history |-> TypedMessage(chat_history[i])]
    ELSE LET recent == Last(chat_history, limit)
             older_count == Len(chat_history)
         IN  <<[type |-> "AIMessage", content |-> Summary(older_count)]>>
             \o [i \in DOMAIN recent |-> TypedMessage(recent[i])]

\* prepare_chat_history(chat_history, max_messages)
prepare_chat_history(chat_history, limit) ==
    IF Len(chat_history) <= limit
    THEN [i \in DOMAIN chat_history |-> TypedMessage(chat_history[i])]
    ELSE LET recent == Last(chat_history, limit)
             older_count == Len(chat_history) - limit
         IN  <<[type |-> "AIMessage", content |-> Summary(older_count)]>>
             \o [i \in DOMAIN recent |-> TypedMessage(recent[i])]

-----------------------------------------------------------------------------
(* Sessions, callers and the environment's inputs *)

Sessions == {"user_001", "user_002"}

\* "main" calls chat on the interpreter's main thread (the __main__ driver);
\* "worker" calls it on another thread (the web front end's script thread),
\* where signal.signal raises ValueError.
Callers == {"main", "worker"}

NoAlarm == -1
SIG_DFL == "SIG_DFL"
HandlerOf(p) == "handler@" \o p

\* signal.signal accepted from any thread
InMainThread_any(p) == TRUE

\* signal.signal(SIGALRM, handler) is accepted on the main thread only
InMainThread(p) == p = "main"

NoOutput == [k \in {} |-> <<>>]
WithOutput(text) == [k \in {"output"} |-> text]

Inputs == {InvalidInput, GreetingInput, PlainInput, KneeInput}
Responses == {NoOutput, WithOutput(ShortOutput), WithOutput(LongOutput)}
Failures == {FailureText}

AllSaved == [f \in FileNames |-> "written"]

\* one clock step of the pipeline specifications, and their horizon
Step == timeout_seconds * TicksPerSecond
Horizon == MaxTime * Step

NoTally == [calls |-> 0, first |-> NoAlarm, admitted |-> 0, counted |-> 0, stale |-> 0]

RECURSIVE TotalCalls(_, _)
TotalCalls(t, S) ==
    IF S = {} THEN 0
    ELSE LET s == CHOOSE x \in S : TRUE
         IN  t[s].calls + TotalCalls(t, S \ {s})

\* what a caller holds before its first call
NoCall ==
    [session_id |-> "", user_input |-> <<>>, total_requests |-> 0,
     chat_history |-> <<>>, enhanced_input |-> <<>>, formatted_history |-> <<>>,
     old_handler |-> SIG_DFL, invoked |-> FALSE, returned |-> FALSE, raised |-> FALSE,
     timed_out |-> FALSE,
     response |-> NoOutput, error |-> <<>>, loaded |-> EmptyDict,
     before |-> [request_times |-> EmptyDict, user_memory |-> EmptyDict,
                 files |-> [f \in FileNames |-> AbsentFile], now |-> 0]]

NoReturn == [outcome |-> "none", text |-> <<>>]

\* no function has been called directly yet
NoProbe == [fn |-> "none", args |-> <<>>, at |-> 0, before |-> <<>>, result |-> <<>>]

Snapshot ==
    [request_times |-> request_times, user_memory |-> user_memory,
     files |-> files, now |-> now]

-----------------------------------------------------------------------------
(* The stores as the module's import leaves them *)

Imported(disk) ==
    /\ files = disk
    /\ user_memory = Load(disk[MEMORY_FILE])          \* user_memory = load_memory()
    /\ request_times = Load(disk[RATE_LIMIT_FILE])    \* request_times.update(...)
    /\ now = 0
    /\ alarm = NoAlarm
    /\ sigalrm = SIG_DFL
    /\ pc = [p \in Callers |-> "idle"]
    /\ call = [p \in Callers |-> NoCall]
    /\ ret = [p \in Callers |-> NoReturn]
    /\ tally = [s \in Sessions |-> NoTally]

\* the program after its import, nothing called yet
StartUp(disk) == Imported(disk) /\ probe = NoProbe

\* the program after its import, about to call one function with args
Given(disk, args) == Imported(disk) /\ probe = [NoProbe EXCEPT !.args = args]

NoFiles == [f \in FileNames |-> AbsentFile]

\* a conversation of n turns left by an earlier run: turn i carries the text i
StoredHistory(n) ==
    [i \in 1..n |-> <<IF i % 2 = 1 THEN "human" ELSE "assistant", str(i)>>]

\* a window of n requests made at time 0 left by an earlier run
StoredWindow(n) == [i \in 1..n |-> 0]

Disks ==
    {[NoFiles EXCEPT ![MEMORY_FILE] = m, ![RATE_LIMIT_FILE] = r] :
        m \in {AbsentFile,
               FileOf([s \in {"user_001"} |-> StoredHistory(MemoryCap - 1)])},
        r \in {AbsentFile,
               FileOf([s \in {"user_001"} |-> StoredWindow(max_requests - 1)])}}

Init == \E disk \in Disks : StartUp(disk)

-----------------------------------------------------------------------------
(* chat(user_input, agent_executor, session_id, timeout_seconds) *)

Return(p, outcome, text) == ret' = [ret EXCEPT ![p] = [outcome |-> outcome, text |-> text]]

\* Enhanced listing every recorded limitation
Enhanced_lists_all(user_input, limitations) ==
    IF limitations # <<>>
    THEN user_input \o MentionHead
         \o join(<<",", " ">>, limitations) \o <<"]">>
    ELSE user_input

\* enhanced_input: user_input, annotated when the profile has limitations
Enhanced(user_input, limitations) ==
    IF limitations # <<>>
    THEN user_input \o MentionHead
         \o join(<<",", " ">>, First(limitations, MentionCap)) \o <<"]">>
    ELSE user_input

\* the early returns of chat, in the order the code takes them
Route(allowed, valid, greeting) ==
    IF ~allowed THEN "rate_limited"
    ELSE IF ~valid THEN "clarification"
    ELSE IF greeting THEN "greeting"
    ELSE "invoke"

\* Writes with the usage update placed before the greeting check
Writes_usage_before_greeting(route) ==
    IF route = "rate_limited" THEN {}
    ELSE IF route = "clarification" THEN {RATE_LIMIT_FILE}
    ELSE IF route = "greeting" THEN {RATE_LIMIT_FILE, USAGE_STATS}
    ELSE {RATE_LIMIT_FILE, USAGE_STATS, USER_PROFILES}

\* the backing files a call on that route has written when it gets there:
\* save_rate_limits() on admission, then update_usage_stats() and
\* extract_user_context() after the greeting check
Writes(route) ==
    IF route = "rate_limited" THEN {}
    ELSE IF route \in {"clarification", "greeting"} THEN {RATE_LIMIT_FILE}
    ELSE {RATE_LIMIT_FILE, USAGE_STATS, USER_PROFILES}

\* Arm with the alarm never set
Arm_nothing(t, seconds) == NoAlarm

\* signal.alarm(seconds) at time t: the deadline; alarm(0) arms nothing
Arm(t, seconds) ==
    IF seconds = 0 THEN NoAlarm ELSE t + seconds * TicksPerSecond

\* FinalOutput replacing a text of fewer than 10 characters
FinalOutput_with_fallback(response) ==
    IF "output" \in DOMAIN response /\ Len(response["output"]) >= 10
    THEN response["output"] ELSE DefaultOutput

\* response.get("output", "I'm not sure how to respond to that. ...")
FinalOutput(response) == Get(response, "output", DefaultOutput)

\* Truncate keeping the oldest turns (chat_history[:50])
Truncate_keeps_oldest(chat_history) == First(chat_history, MemoryCap)

\* Truncate keeping one turn less (chat_history[-49:])
Truncate_one_less(chat_history) == Last(chat_history, MemoryCap - 1)

\* chat_history[-50:]
Truncate(chat_history) == Last(chat_history, MemoryCap)

\* Except with the generic clause first: every exception gets the apology
Except_generic_first(exception) ==
    [outcome |-> "apology", text |-> ApologyMsg]

\* Except treating every exception as the timeout
Except_always_timeout(exception) ==
    [outcome |-> "timeout", text |-> TimeoutMsg]

\* except TimeoutError ... / except Exception ...: what chat returns
Except(exception) ==
    IF exception = "TimeoutError"
    THEN [outcome |-> "timeout", text |-> TimeoutMsg]
    ELSE [outcome |-> "apology", text |-> ApologyMsg]

\* the history with the message being sent already in it
StoredTurns_with_message(memory, session_id, user_input) ==
    Append(Get(memory, session_id, <<>>), <<"human", user_input>>)

\* chat_history = user_memory.get(session_id, []): the turns stored before
\* the call
StoredTurns(memory, session_id, user_input) == Get(memory, session_id, <<>>)

\* chat from its first line to the moment the reasoning step is running
\* inside the timeout block, or to its return when it ends before that
ChatStart(p, session_id, user_input, saved) ==
    /\ pc[p] = "idle"
    /\ LET rl == check_rate_limit(request_times, session_id, now)
           valid == is_valid_input(user_input)
           greeting == is_greeting(user_input)
           route == Route(rl.allowed, valid, greeting)
           proceeds == route = "invoke"
           stats == update_usage_stats(Load(files[USAGE_STATS]), session_id, now)
           chat_history == StoredTurns(user_memory, session_id, user_input)
           profiles == extract_user_context(Load(files[USER_PROFILES]),
                                            session_id, chat_history, now)
           user_profile == profiles[session_id]
           written == Writes(route)
           data == [f \in FileNames |->
                      IF f = RATE_LIMIT_FILE THEN rl.request_times
                      ELSE IF f = USAGE_STATS THEN stats
                      ELSE IF f = USER_PROFILES THEN profiles
                      ELSE user_memory]
           in_block == proceeds /\ InMainThread(p)
           locals == [NoCall EXCEPT
                        !.session_id = session_id,
                        !.user_input = user_input,
                        !.before = Snapshot]
       IN  /\ request_times' = rl.request_times
           /\ tally' = [tally EXCEPT
                          ![session_id].calls = @ + 1,
                          ![session_id].first = IF @ = NoAlarm THEN now ELSE @,
                          ![session_id].admitted = @ + (IF rl.allowed THEN 1 ELSE 0),
                          ![session_id].counted =
                              @ + (IF rl.allowed /\ valid /\ ~greeting THEN 1 ELSE 0)]
           /\ files' = [f \in FileNames |->
                           IF f \in written THEN Save(files[f], data[f], saved[f])
                           ELSE files[f]]
           /\ call' = [call EXCEPT ![p] =
                 IF ~proceeds THEN locals
                 ELSE [locals EXCEPT
                         !.total_requests = stats[session_id].total_requests,
                         !.chat_history = chat_history,
                         !.enhanced_input = Enhanced(user_input, user_profile.limitations),
                         !.formatted_history = prepare_chat_history(chat_history, max_messages),
                         !.old_handler = IF in_block THEN sigalrm ELSE SIG_DFL,
                         !.invoked = in_block,
                         !.error = IF in_block THEN <<>> ELSE MainThreadOnly]]
           /\ IF in_block
              THEN /\ sigalrm' = HandlerOf(p)
                   /\ alarm' = Arm(now, timeout_seconds)
                   /\ pc' = [pc EXCEPT ![p] = "invoking"]
                   /\ UNCHANGED ret
              ELSE /\ UNCHANGED <<sigalrm, alarm, pc>>
                   /\ IF route = "rate_limited" THEN Return(p, route, rl.message)
                      ELSE IF route = "clarification" THEN Return(p, route, ClarificationMsg)
                      ELSE IF route = "greeting" THEN Return(p, route, GreetingMsg)
                      ELSE ret' = [ret EXCEPT ![p] = Except("ValueError")]
           /\ UNCHANGED <<now, user_memory, probe>>

\* agent_executor.invoke(...) returns a response
AgentReturns(p, response) ==
    /\ pc[p] = "invoking"
    /\ pc' = [pc EXCEPT ![p] = "exiting"]
    /\ call' = [call EXCEPT ![p].returned = TRUE, ![p].response = response]
    /\ UNCHANGED <<now, request_times, user_memory, files, alarm, sigalrm, ret, tally,
                   probe>>

\* agent_executor.invoke(...) raises an exception other than the timeout
AgentRaises(p, error) ==
    /\ pc[p] = "invoking"
    /\ pc' = [pc EXCEPT ![p] = "exiting"]
    /\ call' = [call EXCEPT ![p].raised = TRUE, ![p].error = error]
    /\ UNCHANGED <<now, request_times, user_memory, files, alarm, sigalrm, ret, tally,
                   probe>>

\* the finally clause of timeout(), then the rest of chat
ExitBlock(p, saved) ==
    /\ pc[p] = "exiting"
    /\ alarm' = NoAlarm                        \* signal.alarm(0)
    /\ sigalrm' = call[p].old_handler          \* signal.signal(SIGALRM, old_handler)
    /\ pc' = [pc EXCEPT ![p] = "idle"]
    /\ IF call[p].returned
       THEN LET session_id == call[p].session_id
                output == FinalOutput(call[p].response)
                chat_history == call[p].chat_history
                                    \o << <<"human", call[p].user_input>>,
                                          <<"assistant", output>> >>
                memory == Put(user_memory, session_id, Truncate(chat_history))
            IN  /\ user_memory' = memory
                /\ files' = [files EXCEPT ![MEMORY_FILE] =
                                Save(@, memory, saved[MEMORY_FILE])]
                /\ Return(p, "answer", output)
       ELSE /\ ret' = [ret EXCEPT ![p] = Except("Exception")]
            /\ UNCHANGED <<user_memory, files>>
    /\ UNCHANGED <<now, request_times, call, tally, probe>>

\* SIGALRM is delivered while the timeout block is open: handler() raises
\* TimeoutError in the caller.  Raised under the yield it runs the finally
\* clause; raised inside the finally clause, before signal.alarm(0), it cuts
\* the clause short and the old handler is not put back.
AlarmFires(p) ==
    /\ pc[p] \in {"invoking", "exiting"}
    /\ alarm # NoAlarm /\ now >= alarm
    /\ sigalrm = HandlerOf(p)
    /\ alarm' = NoAlarm
    /\ sigalrm' = IF pc[p] = "invoking" THEN call[p].old_handler ELSE sigalrm
    /\ pc' = [pc EXCEPT ![p] = "idle"]
    /\ call' = [call EXCEPT ![p].timed_out = TRUE,
                             ![p].error = TimedOutHead \o str(timeout_seconds)
                                            \o TimedOutTail]
    /\ ret' = [ret EXCEPT ![p] = Except("TimeoutError")]
    /\ UNCHANGED <<now, request_times, user_memory, files, tally, probe>>

\* time passes; a pending alarm is delivered when it is due, not later, and
\* leaving the timeout block takes no time
Tick(d) ==
    /\ \A p \in Callers : pc[p] # "exiting"
    /\ alarm = NoAlarm \/ now + d <= alarm
    /\ now' = now + d
    /\ UNCHANGED <<request_times, user_memory, files, alarm, sigalrm, pc, call,
                   ret, tally, probe>>

Sequential(p) == \A q \in Callers \ {p} : pc[q] = "idle"

\* the bounds of a run: calls left to make, and time left for a call's deadline
CallsLeft(n) == TotalCalls(tally, Sessions) < n
TimeLeft(d) == now + d <= Horizon

Chat(text) ==
    /\ CallsLeft(MaxCalls) /\ TimeLeft(Step) /\ Sequential("main")
    /\ ChatStart("main", "user_001", text, AllSaved)

Returns(r) == AgentReturns("main", r)
Raises(e) == AgentRaises("main", e)
Exit == ExitBlock("main", AllSaved)
Alarm == AlarmFires("main")
Clock == TimeLeft(Step) /\ Tick(Step)

Next ==
    \/ \E text \in Inputs : Chat(text)
    \/ \E r \in Responses : Returns(r)
    \/ \E e \in Failures : Raises(e)
    \/ Exit
    \/ Alarm
    \/ Clock

Spec == Init /\ [][Next]_vars

-----------------------------------------------------------------------------
(* A burst of calls of one session, starting from empty stores *)

InitBurst == StartUp(NoFiles)

BurstChat ==
    /\ CallsLeft(BurstCalls) /\ TimeLeft(Step) /\ Sequential("main")
    /\ ChatStart("main", "user_001", PlainInput, AllSaved)

NextBurst ==
    \/ BurstChat
    \/ Raises(FailureText)
    \/ Exit
    \/ Alarm
    \/ Clock

SpecBurst == InitBurst /\ [][NextBurst]_vars

-----------------------------------------------------------------------------
(* The pipeline under the scheduling the platform guarantees: time passes, *)
(* a due SIGALRM is delivered, and an opened finally clause is run.  The   *)
(* reasoning step is under no obligation to return.                        *)

InitLive ==
    StartUp([NoFiles EXCEPT ![RATE_LIMIT_FILE] =
                FileOf([s \in {"user_001"} |-> StoredWindow(max_requests - 1)])])

NextLive ==
    \/ \E text \in Inputs : Chat(text)
    \/ Returns(WithOutput(LongOutput))
    \/ Raises(FailureText)
    \/ Exit
    \/ Alarm
    \/ Clock

SpecLive ==
    InitLive /\ [][NextLive]_vars
        /\ WF_vars(Clock) /\ WF_vars(Alarm) /\ WF_vars(Exit)

-----------------------------------------------------------------------------
(* Properties *)

\* the last call of caller p is over and call[p], ret[p] describe it
Done(p) == pc[p] = "idle" /\ ret[p].outcome # "none"

WindowOf(rt, s) == Get(rt, s, <<>>)
HistoryOf(mem, s) == Get(mem, s, <<>>)
TotalRequests(s) ==
    LET stats == Load(files[USAGE_STATS])
    IN  IF s \in DOMAIN stats THEN stats[s].total_requests ELSE 0

Min(a, b) == IF a <= b THEN a ELSE b

\* C1: a session that starts with an empty rate window and makes all its calls
\* within less than window seconds has exactly its first max_requests calls
\* admitted; every later call returns the rate-limit message.
C1_BurstAdmitsFirstMax ==
    \A s \in Sessions :
        (tally[s].calls > 0 /\ now - tally[s].first < window * TicksPerSecond) =>
            /\ tally[s].admitted = Min(tally[s].calls, max_requests)
            /\ \A p \in Callers :
                 (Done(p) /\ call[p].session_id = s /\ tally[s].calls > max_requests) =>
                    /\ ret[p].outcome = "rate_limited"
                    /\ \E w \in 1..window : ret[p].text = RateLimitMessage(w)

C1_Witness ==
    /\ tally["user_001"].calls = max_requests + 2
    /\ tally["user_001"].admitted = max_requests
    /\ now - tally["user_001"].first < window * TicksPerSecond
    /\ Done("main") /\ ret["main"].outcome = "rate_limited"

\* C2: a call the limiter rejects returns the limiter's message, does not
\* invoke the reasoning step, appends no timestamp to the session's window and
\* leaves the usage, profile and memory stores (and every backing file) as
\* they were.
C2_RejectionTouchesNothing ==
    \A p \in Callers :
        (Done(p) /\ ret[p].outcome = "rate_limited") =>
            LET s == call[p].session_id
                old == WindowOf(call[p].before.request_times, s)
                kept == SelectSeq(old, LAMBDA x :
                            call[p].before.now - x < window * TicksPerSecond)
            IN  /\ ~call[p].invoked
                /\ ret[p].text = RateLimitHead
                       \o str((window * TicksPerSecond
                                 - (call[p].before.now - kept[1])) \div TicksPerSecond)
                       \o RateLimitTail
                /\ request_times = Put(call[p].before.request_times, s, kept)
                /\ user_memory = call[p].before.user_memory
                /\ files = call[p].before.files

C2_Witness ==
    /\ Done("main") /\ ret["main"].outcome = "rate_limited"
    /\ Len(WindowOf(request_times, "user_001")) = max_requests
    /\ TotalRequests("user_001") = 1

\* C3: an admitted call whose input is invalid or a greeting returns the fixed
\* clarification prompt, respectively the fixed greeting, without invoking the
\* reasoning step; usage, profile and memory are unchanged and the rate-limit
\* store gains exactly the call's timestamp.
C3_ShortCircuitTouchesOnlyRateLimits ==
    \A p \in Callers :
        Done(p) =>
            LET s == call[p].session_id
                text == call[p].user_input
                old == WindowOf(call[p].before.request_times, s)
                kept == SelectSeq(old, LAMBDA x :
                            call[p].before.now - x < window * TicksPerSecond)
                short == ret[p].outcome \in {"clarification", "greeting"}
            IN  /\ (ret[p].outcome # "rate_limited"
                      /\ (~is_valid_input(text) \/ is_greeting(text))) => short
                /\ short =>
                     /\ ~call[p].invoked
                     /\ ret[p].outcome = "clarification" <=> ~is_valid_input(text)
                     /\ ret[p].text = IF ret[p].outcome = "clarification"
                                      THEN ClarificationMsg ELSE GreetingMsg
                     /\ user_memory = call[p].before.user_memory
                     /\ \A f \in {MEMORY_FILE, USER_PROFILES, USAGE_STATS} :
                            files[f] = call[p].before.files[f]
                     /\ request_times =
                            Put(call[p].before.request_times, s,
                                Append(kept, call[p].before.now))
                     /\ files[RATE_LIMIT_FILE] = FileOf(request_times)

C3_Witness ==
    /\ Done("main") /\ ret["main"].outcome = "greeting"
    /\ TotalRequests("user_001") = 1
    /\ Len(WindowOf(request_times, "user_001")) = 2

\* C4: a session's total_requests equals the number of its calls that were
\* admitted, valid and not greetings, whatever the reasoning step did; the
\* increment made before a timeout stays.
C4_UsageCountsQualifiedCalls ==
    \A s \in Sessions : TotalRequests(s) = tally[s].counted

C4_Witness ==
    /\ Done("main") /\ ret["main"].outcome = "timeout"
    /\ TotalRequests("user_001") = 2
    /\ tally["user_001"].calls = 2

\* C5 as stated: a returned text shorter than 10 characters is replaced by a
\* fallback, and the fallback is the assistant turn that is stored.
C5_ShortOutputReplaced ==
    \A p \in Callers :
        (Done(p) /\ call[p].returned /\ ret[p].outcome = "answer"
           /\ "output" \in DOMAIN call[p].response
           /\ Len(call[p].response["output"]) < 10) =>
            LET history == HistoryOf(user_memory, call[p].session_id)
            IN  /\ ret[p].text # call[p].response["output"]
                /\ Len(ret[p].text) >= 10
                /\ history[Len(history)] = <<"assistant", ret[p].text>>

\* C5 as the code has it: chat returns the reasoning step's text whatever its
\* length (the fixed rephrase text only when the response carries no output),
\* and the assistant turn stored is exactly the text chat returns.
C5_OutputReturnedAsIs ==
    \A p \in Callers :
        (Done(p) /\ call[p].returned /\ ret[p].outcome = "answer") =>
            LET history == HistoryOf(user_memory, call[p].session_id)
            IN  /\ ret[p].text = IF "output" \in DOMAIN call[p].response
                                 THEN call[p].response["output"]
                                 ELSE DefaultOutput
                /\ history[Len(history)] = <<"assistant", ret[p].text>>

C5_Witness ==
    /\ Done("main") /\ ret["main"].outcome = "answer"
    /\ call["main"].response = WithOutput(ShortOutput)
    /\ Len(ret["main"].text) = 8

\* C6: the success path appends (human, original input) and (assistant,
\* returned text), keeps the most recent 50 turns, oldest dropped, and saves
\* the memory store; a history written by chat never exceeds 50 turns.
C6_AppendTwoKeepLast50 ==
    \A p \in Callers :
        (Done(p) /\ ret[p].outcome = "answer") =>
            LET s == call[p].session_id
                grown == HistoryOf(call[p].before.user_memory, s)
                            \o << <<"human", call[p].user_input>>,
                                  <<"assistant", ret[p].text>> >>
                drop == IF Len(grown) > MemoryCap THEN Len(grown) - MemoryCap ELSE 0
            IN  /\ user_memory[s] = SubSeq(grown, drop + 1, Len(grown))
                /\ Len(user_memory[s]) <= MemoryCap
                /\ \A o \in DOMAIN call[p].before.user_memory \ {s} :
                       user_memory[o] = call[p].before.user_memory[o]
                /\ files[MEMORY_FILE] = FileOf(user_memory)

C6_Witness ==
    /\ Done("main") /\ ret["main"].outcome = "answer"
    /\ Len(HistoryOf(call["main"].before.user_memory, "user_001")) = MemoryCap - 1
    /\ Len(user_memory["user_001"]) = MemoryCap
    /\ user_memory["user_001"][1] = call["main"].before.user_memory["user_001"][2]

\* C7: when the deadline elapses inside the timeout block, chat returns the
\* fixed "taking too long" message (it does not raise) and the session's
\* history, in memory and in the file, is what it was before the call.
C7_TimeoutLeavesHistory ==
    \A p \in Callers :
        (Done(p) /\ call[p].timed_out) =>
            /\ ret[p].outcome = "timeout"
            /\ ret[p].text = TimeoutMsg
            /\ user_memory = call[p].before.user_memory
            /\ files[MEMORY_FILE] = call[p].before.files[MEMORY_FILE]

C7_Witness ==
    /\ Done("main") /\ call["main"].timed_out
    /\ call["main"].invoked /\ ~call["main"].returned /\ ~call["main"].raised
    /\ now = call["main"].before.now + timeout_seconds * TicksPerSecond
    /\ Len(HistoryOf(user_memory, "user_001")) = 2

Outcomes ==
    {"rate_limited", "clarification", "greeting", "answer", "timeout", "apology"}

\* C9: every chat call ends, also when the reasoning step never returns, in
\* one of the six outcomes; an answer is returned only with the memory write
\* done.
C9_ChatTerminates ==
    /\ [](\A p \in Callers :
            Done(p) =>
               /\ ret[p].outcome \in Outcomes
               /\ ret[p].outcome = "answer" =>
                    LET history == HistoryOf(user_memory, call[p].session_id)
                    IN  /\ Len(history) >= 2
                        /\ history[Len(history)] = <<"assistant", ret[p].text>>
                        /\ files[MEMORY_FILE] = FileOf(user_memory))
    /\ \A p \in Callers : (pc[p] # "idle") ~> (pc[p] = "idle")

C9_Witness ==
    /\ Done("main") /\ ret["main"].outcome = "timeout"
    /\ call["main"].invoked /\ ~call["main"].returned /\ ~call["main"].raised

\* C10: once the timeout block of a call is left, by whatever path, no
\* deadline is armed and the SIGALRM handler is the one that was installed
\* before the call.
C10_DeadlineAndHandlerReleased ==
    \A p \in Callers :
        (Done(p) /\ call[p].invoked) =>
            /\ alarm = NoAlarm
            /\ sigalrm = call[p].old_handler


-----------------------------------------------------------------------------
(* The limiter called on its own, at instants around the window boundary *)

\* the instants at which the limiter is called: the start, the last tick
\* before a full window has passed, and a full window after the start
RateInstants == {0, window * TicksPerSecond - 1, window * TicksPerSecond}

\* allowed, message = check_rate_limit(session_id)
RateCall(session_id) ==
    /\ \A p \in Callers : pc[p] = "idle"
    /\ LET rl == check_rate_limit(request_times, session_id, now)
       IN  /\ request_times' = rl.request_times
           /\ files' = [files EXCEPT ![RATE_LIMIT_FILE] =
                           IF rl.allowed
                           THEN Save(@, rl.request_times, AllSaved[RATE_LIMIT_FILE])
                           ELSE @]
           /\ probe' = [fn |-> "check_rate_limit", args |-> <<session_id>>,
                        at |-> now, before |-> request_times,
                        result |-> [allowed |-> rl.allowed, message |-> rl.message]]
           /\ tally' = [tally EXCEPT
                          ![session_id].calls = @ + 1,
                          ![session_id].first = IF @ = NoAlarm THEN now ELSE @,
                          ![session_id].admitted = @ + (IF rl.allowed THEN 1 ELSE 0)]
    /\ UNCHANGED <<now, user_memory, alarm, sigalrm, pc, call, ret>>

InitRate == StartUp(NoFiles)

RateCheck == CallsLeft(RateCalls) /\ RateCall("user_001")
RateClock == \E t \in RateInstants : t > now /\ Tick(t - now)

NextRate == RateCheck \/ RateClock

SpecRate == InitRate /\ [][NextRate]_vars

\* the last step was a direct call of check_rate_limit
RateProbed == probe.fn = "check_rate_limit"

\* the indices of the timestamps of times that are younger than a window at t
Young(times, t) == {i \in 1..Len(times) : t - times[i] < window * TicksPerSecond}

\* C11: check_rate_limit drops every timestamp aged a window or more before it
\* decides: the call leaves exactly the younger timestamps (plus its own when
\* admitted), all younger than a window, decides on their number alone, and a
\* session whose timestamps are all a window old or older is admitted with a
\* window that holds only the new request.
C11_StaleTimestampsDropped ==
    RateProbed =>
        LET s == probe.args[1]
            t == probe.at
            old == WindowOf(probe.before, s)
            new == WindowOf(request_times, s)
            young == Cardinality(Young(old, t))
            allowed == probe.result.allowed
        IN  /\ \A i \in 1..Len(new) : t - new[i] < window * TicksPerSecond
            /\ allowed <=> young < max_requests
            /\ Len(new) = young + (IF allowed THEN 1 ELSE 0)
            /\ \A i \in 1..young : \E j \in Young(old, t) : new[i] = old[j]
            /\ allowed => new[Len(new)] = t
            /\ young = 0 => allowed /\ new = <<t>>

\* a session with a full window is called again a whole window later: the old
\* timestamps are gone and the call is admitted
C11_Witness ==
    /\ RateProbed
    /\ Len(WindowOf(probe.before, probe.args[1])) = max_requests
    /\ Young(WindowOf(probe.before, probe.args[1]), probe.at) = {}
    /\ probe.result.allowed
    /\ WindowOf(request_times, probe.args[1]) = <<probe.at>>

\* C12: whenever check_rate_limit rejects, the wait it reports is the window
\* minus the age of the oldest retained timestamp, rounded down to whole
\* seconds, and that number is greater than 0 and at most the window.
C12_WaitTimePositive ==
    (RateProbed /\ ~probe.result.allowed) =>
        LET retained == WindowOf(request_times, probe.args[1])
            remaining == window * TicksPerSecond - (probe.at - retained[1])
            wait_time == remaining \div TicksPerSecond
        IN  /\ probe.result.message = RateLimitMessage(wait_time)
            /\ 0 < wait_time
            /\ wait_time <= window

\* C13: the limit is not a hard bound on every span of window seconds: the
\* requests a session gets admitted from its first call to an instant at most
\* a window later number at most 2 * max_requests, and more than max_requests
\* only when the span is the whole window, the later requests arriving at the
\* instant the earlier ones turn a window old.
C13_BoundaryBurstBound ==
    \A s \in Sessions :
        tally[s].first # NoAlarm =>
            /\ now - tally[s].first <= window * TicksPerSecond
                   => tally[s].admitted <= 2 * max_requests
            /\ now - tally[s].first < window * TicksPerSecond
                   => tally[s].admitted <= max_requests

\* 2 * max_requests requests of one session admitted within a span of exactly
\* window seconds
C13_Witness ==
    \E s \in Sessions :
        /\ tally[s].first # NoAlarm
        /\ now - tally[s].first = window * TicksPerSecond
        /\ tally[s].admitted = 2 * max_requests
        /\ Len(WindowOf(request_times, s)) = max_requests

-----------------------------------------------------------------------------
(* prepare_chat_history called on its own *)

\* the turns a history is made of: the two roles chat writes and a foreign one
HistoryTurns == {<<role, msg>> : role \in {"human", "assistant", "system"},
                                 msg \in {<<"a">>, <<"b">>}}

RECURSIVE SeqsUpTo(_, _)
\* the sequences of at most n elements of S
SeqsUpTo(S, n) ==
    IF n = 0 THEN {<<>>}
    ELSE LET shorter == SeqsUpTo(S, n - 1)
         IN  shorter \cup {Append(q, x) : q \in shorter, x \in S}

\* short histories with every limit up to their length, and the stored
\* conversations around the default limit with that limit
HistoryCalls ==
    (SeqsUpTo(HistoryTurns, HistLen) \X (0..HistLen))
        \cup {<<StoredHistory(max_messages + k), max_messages>> : k \in 0..5}

\* formatted_history = prepare_chat_history(chat_history, max_messages)
PrepareCall(chat_history, limit) ==
    /\ probe.fn = "none" /\ probe.args = <<chat_history, limit>>
    /\ probe' = [fn |-> "prepare_chat_history", args |-> <<chat_history, limit>>,
                 at |-> now, before |-> <<>>,
                 result |-> prepare_chat_history(chat_history, limit)]
    /\ UNCHANGED <<now, request_times, user_memory, files, alarm, sigalrm, pc, call,
                   ret, tally>>

InitHistory == \E c \in HistoryCalls : Given(NoFiles, c)

NextHistory == \E c \in HistoryCalls : PrepareCall(c[1], c[2])

SpecHistory == InitHistory /\ [][NextHistory]_vars

\* the last step was a direct call of prepare_chat_history
HistoryProbed == probe.fn = "prepare_chat_history"

\* msg is the typed message of turn: a user message for a human turn, a model
\* message for any other, with the turn's text
TypedAs(turn, msg) ==
    /\ msg.type = (IF turn[1] = "human" THEN "HumanMessage" ELSE "AIMessage")
    /\ msg.content = turn[2]

\* C14: for a limit of at least 1, prepare_chat_history returns the typed
\* messages of all turns in order when the history is no longer than the limit;
\* otherwise limit + 1 entries: a model message stating how many turns were
\* left out, then the typed messages of the last limit turns.
C14_TypedWindowWithSummary ==
    (HistoryProbed /\ probe.args[2] >= 1) =>
        LET history == probe.args[1]
            limit == probe.args[2]
            out == probe.result
            older == Len(history) - limit
        IN  IF Len(history) <= limit
            THEN /\ Len(out) = Len(history)
                 /\ \A i \in 1..Len(history) : TypedAs(history[i], out[i])
            ELSE /\ Len(out) = limit + 1
                 /\ out[1].type = "AIMessage"
                 /\ out[1].content = SummaryHead \o str(older) \o SummaryTail
                 /\ \A i \in 1..limit : TypedAs(history[older + i], out[i + 1])

\* 25 turns with the default limit: 21 entries, the summary states 5
C14_Witness ==
    /\ HistoryProbed
    /\ Len(probe.args[1]) = 25 /\ probe.args[2] = max_messages
    /\ Len(probe.result) = 21
    /\ probe.result[1].content = SummaryHead \o <<"5">> \o SummaryTail
    /\ TypedAs(probe.args[1][6], probe.result[2])

-----------------------------------------------------------------------------
(* extract_user_context called on its own, call after call *)

\* what the user and the assistant say in these conversations
BeginnerMsg ==
    <<"I", "'", "m", " ", "a", " ", "b", "e", "g", "i", "n", "n", "e", "r", " ", "w", "i", "t",
      "h", " ", "d", "u", "m", "b", "b", "e", "l", "l", "s", " ", "a", "t", " ", "h", "o", "m",
      "e", ",", " ", "b", "a", "d", " ", "k", "n", "e", "e">>

AdvancedMsg ==
    <<"N", "e", "w", " ", "t", "o", " ", "c", "a", "r", "d", "i", "o", ",", " ", "a", "d", "v",
      "a", "n", "c", "e", "d", ",", " ", "b", "a", "d", " ", "k", "n", "e", "e", " ", "p", "a",
      "i", "n">>

KneeAgainMsg ==
    <<"B", "a", "d", " ", "k", "n", "e", "e", " ", "a", "g", "a", "i", "n", ",", " ", "l", "o",
      "s", "e", " ", "w", "e", "i", "g", "h", "t", " ", "i", "n", " ", "g", "y", "m">>

AdviceMsg ==
    <<"T", "r", "y", " ", "b", "a", "r", "b", "e", "l", "l", " ", "f", "o", "r", " ", "s", "t",
      "r", "e", "n", "g", "t", "h", " ", "a", "s", " ", "a", " ", "b", "e", "g", "i", "n", "n",
      "e", "r", ",", " ", "n", "o", " ", "p", "a", "i", "n">>

FatLossMsg ==
    <<"L", "o", "s", "e", " ", "w", "e", "i", "g", "h", "t", ",", " ", "f", "a", "t", " ", "l", "o", "s", "s">>

Said(msg) == <<"human", msg>>
Answered(msg) == <<"assistant", msg>>

\* short conversations, and two long ones whose first turn is the eleventh
\* from the end, or the tenth
ProfileHistories ==
    {<<>>,
     <<Said(BeginnerMsg)>>, <<Said(AdvancedMsg)>>, <<Said(KneeAgainMsg)>>,
     <<Answered(AdviceMsg)>>, <<Said(FatLossMsg)>>,
     <<Said(BeginnerMsg), Said(KneeAgainMsg)>>,
     <<Said(KneeAgainMsg), Said(BeginnerMsg)>>,
     <<Said(AdvancedMsg), Said(BeginnerMsg)>>,
     <<Said(BeginnerMsg), Answered(AdviceMsg), Said(AdvancedMsg)>>,
     <<Said(AdvancedMsg)>> \o StoredHistory(RecentTurns),
     <<Said(AdvancedMsg)>> \o StoredHistory(RecentTurns - 1)}

\* user_profile = extract_user_context(session_id, chat_history)
ExtractCall(session_id, chat_history, saved) ==
    /\ \A p \in Callers : pc[p] = "idle"
    /\ LET before == Load(files[USER_PROFILES])
           profiles == extract_user_context(before, session_id, chat_history, now)
       IN  /\ files' = [files EXCEPT ![USER_PROFILES] =
                           Save(@, profiles, saved[USER_PROFILES])]
           /\ probe' = [fn |-> "extract_user_context",
                        args |-> <<session_id, chat_history>>,
                        at |-> now, before |-> before,
                        result |-> profiles[session_id]]
           /\ tally' = [tally EXCEPT ![session_id].calls = @ + 1]
    /\ UNCHANGED <<now, request_times, user_memory, alarm, sigalrm, pc, call, ret>>

InitProfile == StartUp(NoFiles)

Extract(h) == CallsLeft(ProfileCalls) /\ ExtractCall("user_001", h, AllSaved)

NextProfile == \E h \in ProfileHistories : Extract(h)

SpecProfile == InitProfile /\ [][NextProfile]_vars

\* the last step was a direct call of extract_user_context
ProfileProbed == probe.fn = "extract_user_context"

\* a is a prefix of b
IsPrefix(a, b) == Len(a) <= Len(b) /\ \A i \in 1..Len(a) : a[i] = b[i]

\* the stored profile of session s
ProfileOf(file, s) == Load(file)[s]

\* C15: from one call of extract_user_context to the next, a session's goals,
\* equipment and limitations never lose an element: the sequences a call
\* leaves in the profile store extend the ones it found there.
C15_ProfileListsOnlyGrow ==
    [][\A s \in DOMAIN Load(files[USER_PROFILES]) :
          /\ s \in DOMAIN Load(files'[USER_PROFILES])
          /\ IsPrefix(ProfileOf(files[USER_PROFILES], s).goals,
                      ProfileOf(files'[USER_PROFILES], s).goals)
          /\ IsPrefix(ProfileOf(files[USER_PROFILES], s).equipment,
                      ProfileOf(files'[USER_PROFILES], s).equipment)
          /\ IsPrefix(ProfileOf(files[USER_PROFILES], s).limitations,
                      ProfileOf(files'[USER_PROFILES], s).limitations)]_vars

\* a call that found goals, equipment and limitations recorded and left more
\* of each
C15_Witness ==
    /\ ProfileProbed
    /\ probe.args[1] \in DOMAIN probe.before
    /\ LET old == probe.before[probe.args[1]]
           new == ProfileOf(files[USER_PROFILES], probe.args[1])
       IN  /\ old.goals # <<>> /\ Len(new.goals) > Len(old.goals)
           /\ old.equipment # <<>> /\ Len(new.equipment) > Len(old.equipment)
           /\ old.limitations # <<>> /\ Len(new.limitations) > Len(old.limitations)
           /\ new = probe.result

\* the profile the probed call started from
ProfileBefore == Get(probe.before, probe.args[1], NewProfile(probe.at))

\* the turns the probed call scans, and their human text
ScannedTurns == recent_messages(probe.args[2])
ScannedText == all_text(ScannedTurns)

RECURSIVE FirstMentionOnly(_, _, _, _)
\* limitations as they would be if each keyword found in the text looked at
\* the first human message holding it and at no other
FirstMentionOnly(limitations, turns, text, i) ==
    IF i > Len(limitation_keywords) THEN limitations
    ELSE LET keyword == limitation_keywords[i]
             holds == {k \in DOMAIN turns :
                          /\ turns[k][1] = "human"
                          /\ Contains(lower(turns[k][2]), keyword)}
             first == CHOOSE k \in holds : \A j \in holds : k <= j
         IN  IF Contains(text, keyword) /\ holds # {}
                /\ ~InList(limitations, turns[first][2])
             THEN FirstMentionOnly(Append(limitations, turns[first][2]),
                                   turns, text, i + 1)
             ELSE FirstMentionOnly(limitations, turns, text, i + 1)

\* C16: for each limitation keyword found in the scanned text only the first
\* human message of the recent window holding the keyword is considered: it is
\* appended verbatim unless already recorded, and no later message is appended
\* by that keyword.
C16_FirstMentionOnly ==
    ProfileProbed =>
        probe.result.limitations =
            FirstMentionOnly(ProfileBefore.limitations, ScannedTurns, ScannedText, 1)

\* C17: the experience level a call leaves is the level of the first keyword,
\* in the order beginner, intermediate, advanced, new to, just started, that
\* the scanned human text holds, wherever the keywords stand in the text; it
\* is the level the call found when the text holds none of them.
C17_FirstKeywordInTableOrder ==
    ProfileProbed =>
        probe.result.experience_level =
            IF Contains(ScannedText, <<"b", "e", "g", "i", "n", "n", "e", "r">>) THEN <<"b", "e", "g", "i", "n", "n", "e", "r">>
            ELSE IF Contains(ScannedText, <<"i", "n", "t", "e", "r", "m", "e", "d", "i", "a", "t", "e">>) THEN <<"i", "n", "t", "e", "r", "m", "e", "d", "i", "a", "t", "e">>
            ELSE IF Contains(ScannedText, <<"a", "d", "v", "a", "n", "c", "e", "d">>) THEN <<"a", "d", "v", "a", "n", "c", "e", "d">>
            ELSE IF Contains(ScannedText, <<"n", "e", "w", " ", "t", "o">>) THEN <<"b", "e", "g", "i", "n", "n", "e", "r">>
            ELSE IF Contains(ScannedText, <<"j", "u", "s", "t", " ", "s", "t", "a", "r", "t", "e", "d">>) THEN <<"b", "e", "g", "i", "n", "n", "e", "r">>
            ELSE ProfileBefore.experience_level

\* "new to", "advanced" and "beginner" stand in the text in that order and
\* the level is beginner
C17_Witness ==
    /\ ProfileProbed
    /\ probe.args[2] = <<Said(AdvancedMsg), Said(BeginnerMsg)>>
    /\ Contains(ScannedText, <<"n", "e", "w", " ", "t", "o">>)
    /\ Contains(ScannedText, <<"a", "d", "v", "a", "n", "c", "e", "d">>)
    /\ probe.result.experience_level = <<"b", "e", "g", "i", "n", "n", "e", "r">>

\* the human messages among the last RecentTurns turns of history, in order
RecentHuman(history) ==
    LET from == IF Len(history) > RecentTurns THEN Len(history) - RecentTurns + 1
                ELSE 1
        said == SelectSeq(SubSeq(history, from, Len(history)),
                          LAMBDA turn : turn[1] = "human")
    IN  [k \in DOMAIN said |-> said[k][2]]

\* the elements of list that are not in base
Added(base, list) == {list[k] : k \in DOMAIN list} \ {base[k] : k \in DOMAIN base}

\* C18: a call scans the human text of the last 10 turns and nothing else:
\* afterwards goals hold the goal of every goal keyword in that text and
\* equipment every equipment keyword in it; whatever the call adds to goals,
\* equipment and limitations, and any change of level, comes from that text,
\* never from an assistant turn or an older turn.  From no profile, the one
\* turn "I'm a beginner with dumbbells at home, bad knee" gives the level
\* beginner, dumbbells and home as equipment and the sentence as a limitation.
C18_OnlyRecentHumanText ==
    ProfileProbed =>
        LET said == RecentHuman(probe.args[2])
            text == lower(join(<<" ">>, said))
            old == ProfileBefore
            new == probe.result
        IN  /\ \A i \in DOMAIN goal_keywords :
                  Contains(text, goal_keywords[i][1])
                      => InList(new.goals, goal_keywords[i][2])
            /\ \A i \in DOMAIN equipment_keywords :
                  Contains(text, equipment_keywords[i])
                      => InList(new.equipment, equipment_keywords[i])
            /\ \A goal \in Added(old.goals, new.goals) :
                  \E i \in DOMAIN goal_keywords :
                      goal_keywords[i][2] = goal /\ Contains(text, goal_keywords[i][1])
            /\ \A item \in Added(old.equipment, new.equipment) : Contains(text, item)
            /\ \A msg \in Added(old.limitations, new.limitations) : InList(said, msg)
            /\ new.experience_level # old.experience_level
                  => \E i \in DOMAIN experience_keywords :
                         Contains(text, experience_keywords[i][1])
            /\ (probe.before = EmptyDict /\ probe.args[2] = <<Said(BeginnerMsg)>>)
                  => /\ new.experience_level = <<"b", "e", "g", "i", "n", "n", "e", "r">>
                     /\ InList(new.equipment, <<"d", "u", "m", "b", "b", "e", "l", "l", "s">>)
                     /\ InList(new.equipment, <<"h", "o", "m", "e">>)
                     /\ InList(new.limitations, BeginnerMsg)

\* the sample sentence scanned from no profile
C18_Witness ==
    /\ ProfileProbed
    /\ probe.before = EmptyDict
    /\ probe.args[2] = <<Said(BeginnerMsg)>>
    /\ probe.result.equipment = <<<<"d", "u", "m", "b", "b", "e", "l", "l", "s">>, <<"h", "o", "m", "e">>>>
    /\ probe.result.limitations = <<BeginnerMsg>>

-----------------------------------------------------------------------------
(* chat with a profile left by an earlier run *)

\* the limitations an earlier run may have recorded, oldest first
StoredLimitations == <<BeginnerMsg, AdvancedMsg, KneeAgainMsg>>

\* the profile of a session with the first n of them
StoredProfile(n) ==
    [NewProfile(0) EXCEPT !.limitations = First(StoredLimitations, n)]

InitMention ==
    \E n \in 0..Len(StoredLimitations) :
        StartUp([NoFiles EXCEPT ![USER_PROFILES] =
                    FileOf([s \in {"user_001"} |-> StoredProfile(n)])])

NextMention ==
    \/ \E text \in {PlainInput, KneeInput} : Chat(text)
    \/ Returns(WithOutput(LongOutput))
    \/ Exit
    \/ Alarm
    \/ Clock

SpecMention == InitMention /\ [][NextMention]_vars

\* the limitations recorded for the session of caller p's call
Recorded(p) == ProfileOf(files[USER_PROFILES], call[p].session_id).limitations

\* C19: the text handed to the reasoning step is the original message when the
\* profile has no limitation, and otherwise the original message followed by a
\* line break and "[User has mentioned: ...]" listing the first min(2, n) of
\* its n limitations separated by ", "; the human turn stored after an answer
\* is the original message without the annotation.
C19_AnnotatedInputPlainHistory ==
    \A p \in Callers :
        (call[p].invoked /\ (pc[p] # "idle" \/ Done(p))) =>
            LET n == Len(Recorded(p))
                listed == IF n = 1 THEN Recorded(p)[1]
                          ELSE Recorded(p)[1] \o <<",", " ">> \o Recorded(p)[2]
            IN  /\ call[p].enhanced_input =
                       IF n = 0 THEN call[p].user_input
                       ELSE call[p].user_input \o <<"\n", "[", "U", "s", "e", "r", " ", "h", "a", "s", " ", "m", "e", "n", "t", "i", "o", "n", "e", "d", ":", " ">>
                                \o listed \o <<"]">>
                /\ ret[p].outcome = "answer" /\ pc[p] = "idle" =>
                       LET history == HistoryOf(user_memory, call[p].session_id)
                       IN  history[Len(history) - 1] = <<"human", call[p].user_input>>

\* an answered call whose profile held three limitations: two were listed
C19_Witness ==
    /\ Done("main") /\ ret["main"].outcome = "answer"
    /\ Len(Recorded("main")) = 3
    /\ call["main"].enhanced_input =
           call["main"].user_input \o MentionHead \o BeginnerMsg \o <<",", " ">>
               \o AdvancedMsg \o <<"]">>
    /\ HistoryOf(user_memory, "user_001")[1] = <<"human", call["main"].user_input>>

-----------------------------------------------------------------------------
(* Two chat calls at once, interleaved between a store's load and its save;
   the calls are short against the clock, which stands still here *)

\* chat from its first line to load_usage_stats() inside update_usage_stats,
\* for an input that passes the limiter and the input checks
RaceBegin(p, session_id, user_input, saved) ==
    /\ pc[p] = "idle"
    /\ LET rl == check_rate_limit(request_times, session_id, now)
           route == Route(rl.allowed, is_valid_input(user_input),
                          is_greeting(user_input))
       IN  /\ route = "invoke"
           /\ request_times' = rl.request_times
           /\ files' = [files EXCEPT ![RATE_LIMIT_FILE] =
                           Save(@, rl.request_times, saved[RATE_LIMIT_FILE])]
           /\ tally' = [tally EXCEPT
                          ![session_id].calls = @ + 1,
                          ![session_id].first = IF @ = NoAlarm THEN now ELSE @,
                          ![session_id].admitted = @ + 1]
           /\ call' = [call EXCEPT ![p] =
                          [NoCall EXCEPT
                             !.session_id = session_id,
                             !.user_input = user_input,
                             !.before = Snapshot,
                             !.loaded = Load(files[USAGE_STATS])]]
    /\ pc' = [pc EXCEPT ![p] = "usage_loaded"]
    /\ UNCHANGED <<now, user_memory, alarm, sigalrm, ret, probe>>

\* the rest of update_usage_stats, on the mapping loaded earlier, then chat up
\* to load_user_profiles() inside extract_user_context
UsageSave(p, saved) ==
    /\ pc[p] = "usage_loaded"
    /\ LET session_id == call[p].session_id
           stats == update_usage_stats(call[p].loaded, session_id, now)
       IN  /\ files' = [files EXCEPT ![USAGE_STATS] =
                           Save(@, stats, saved[USAGE_STATS])]
           /\ tally' = [tally EXCEPT
                          ![session_id].counted = @ + 1,
                          ![session_id].stale =
                              @ + (IF Load(files[USAGE_STATS]) # call[p].loaded
                                   THEN 1 ELSE 0)]
           /\ call' = [call EXCEPT
                          ![p].total_requests = stats[session_id].total_requests,
                          ![p].chat_history = Get(user_memory, session_id, <<>>),
                          ![p].loaded = Load(files[USER_PROFILES])]
    /\ pc' = [pc EXCEPT ![p] = "profile_loaded"]
    /\ UNCHANGED <<now, request_times, user_memory, alarm, sigalrm, ret, probe>>

\* the rest of extract_user_context, on the mapping loaded earlier, then chat
\* up to the reasoning step running inside the timeout block
ProfileSave(p, saved) ==
    /\ pc[p] = "profile_loaded"
    /\ LET session_id == call[p].session_id
           profiles == extract_user_context(call[p].loaded, session_id,
                                            call[p].chat_history, now)
           in_block == InMainThread(p)
       IN  /\ files' = [files EXCEPT ![USER_PROFILES] =
                           Save(@, profiles, saved[USER_PROFILES])]
           /\ tally' = [tally EXCEPT
                          ![session_id].stale =
                              @ + (IF Load(files[USER_PROFILES]) # call[p].loaded
                                   THEN 1 ELSE 0)]
           /\ call' = [call EXCEPT
                          ![p].enhanced_input =
                              Enhanced(call[p].user_input,
                                       profiles[session_id].limitations),
                          ![p].formatted_history =
                              prepare_chat_history(call[p].chat_history, max_messages),
                          ![p].old_handler = IF in_block THEN sigalrm ELSE SIG_DFL,
                          ![p].invoked = in_block,
                          ![p].error = IF in_block THEN <<>> ELSE MainThreadOnly]
           /\ IF in_block
              THEN /\ sigalrm' = HandlerOf(p)
                   /\ alarm' = Arm(now, timeout_seconds)
                   /\ pc' = [pc EXCEPT ![p] = "invoking"]
                   /\ UNCHANGED ret
              ELSE /\ UNCHANGED <<sigalrm, alarm>>
                   /\ pc' = [pc EXCEPT ![p] = "idle"]
                   /\ ret' = [ret EXCEPT ![p] = Except("ValueError")]
    /\ UNCHANGED <<now, request_times, user_memory, probe>>

InitRace == StartUp(NoFiles)

RaceChat(p, session_id) ==
    /\ CallsLeft(MaxCalls)
    /\ RaceBegin(p, session_id, PlainInput, AllSaved)
RaceUsage(p) == UsageSave(p, AllSaved)
RaceProfile(p) == ProfileSave(p, AllSaved)

NextRace ==
    \/ \E p \in Callers, s \in Sessions : RaceChat(p, s)
    \/ \E p \in Callers : RaceUsage(p)
    \/ \E p \in Callers : RaceProfile(p)
    \/ Returns(WithOutput(LongOutput))
    \/ Exit

SpecRace == InitRace /\ [][NextRace]_vars

\* total_requests of session s in a usage mapping
CountIn(stats, s) == IF s \in DOMAIN stats THEN stats[s].total_requests ELSE 0

\* C20: with calls interleaved between load and save the last writer wins:
\* a save leaves in the usage file the counters the saving call had loaded,
\* its own session's raised by one, whatever was written in between.  A
\* session's total_requests never exceeds the updates made for it, and falls
\* short of them only after a save made on a view that was no longer current.
C20_LastWriterWins ==
    /\ [](\A s \in Sessions :
              /\ TotalRequests(s) <= tally[s].counted
              /\ (\A x \in Sessions : tally[x].stale = 0)
                     => TotalRequests(s) = tally[s].counted)
    /\ [][\A p \in Callers :
              (pc[p] = "usage_loaded" /\ pc'[p] = "profile_loaded") =>
                  \A s \in Sessions :
                      CountIn(Load(files'[USAGE_STATS]), s) =
                          CountIn(call[p].loaded, s)
                              + (IF s = call[p].session_id THEN 1 ELSE 0)]_vars

\* two calls of one session have both returned, both updates were made, and
\* the stored total_requests is 1
C20_Witness ==
    /\ \A p \in Callers : Done(p)
    /\ tally["user_001"].counted = 2
    /\ TotalRequests("user_001") = 1
    /\ call["main"].total_requests = 1 /\ call["worker"].total_requests = 1

-----------------------------------------------------------------------------
(* A second chat call made while the first is inside its timeout block *)

InitOverlap == StartUp(NoFiles)

\* the main thread's call, then calls of a second thread at any moment
OverlapMain ==
    /\ CallsLeft(MaxCalls) /\ TimeLeft(1)
    /\ ChatStart("main", "user_001", PlainInput, AllSaved)
OverlapWorker ==
    /\ CallsLeft(MaxCalls) /\ TimeLeft(1)
    /\ ChatStart("worker", "user_002", PlainInput, AllSaved)
OverlapClock == \E d \in {Step \div 2, Step} : TimeLeft(d) /\ Tick(d)

NextOverlap ==
    \/ OverlapMain
    \/ OverlapWorker
    \/ Returns(WithOutput(LongOutput))
    \/ Exit
    \/ Alarm
    \/ OverlapClock

SpecOverlap == InitOverlap /\ [][NextOverlap]_vars

\* the main thread is inside its timeout block and the other thread has made
\* a call that began after the block was entered
Overlapped ==
    /\ pc["main"] = "invoking"
    /\ Done("worker")
    /\ call["worker"].before.now > call["main"].before.now

\* the deadline the main thread's call armed for itself
OwnDeadline == call["main"].before.now + timeout_seconds * TicksPerSecond

-----------------------------------------------------------------------------
(* chat with stores that fail: files left unparsable, saves that do not land;
   the reasoning step answers at once, the clock stands still *)

\* a usage record left by an earlier run
StoredUsage(n) == [total_requests |-> n, first_seen |-> 0, last_seen |-> 0]

\* what an earlier run left behind: every store in order
StoredDisk ==
    [f \in FileNames |->
        FileOf([s \in {"user_001"} |->
                   IF f = MEMORY_FILE THEN StoredHistory(2)
                   ELSE IF f = USER_PROFILES THEN StoredProfile(1)
                   ELSE IF f = USAGE_STATS THEN StoredUsage(MaxCalls + 1)
                   ELSE StoredWindow(1)])]

\* the same files, every one cut short by a write that failed
TornDisk == [f \in FileNames |-> TornFile(StoredDisk[f].data)]

\* per call at most one store fails to save
Faults ==
    {AllSaved} \cup {[AllSaved EXCEPT ![f] = how] :
                        f \in FileNames, how \in SaveOutcomes \ {"written"}}

InitFaulty == \E disk \in {NoFiles, StoredDisk, TornDisk} : StartUp(disk)

FaultyChat(text, saved) ==
    /\ CallsLeft(MaxCalls) /\ Sequential("main")
    /\ ChatStart("main", "user_001", text, saved)
FaultyExit(saved) == ExitBlock("main", saved)

NextFaulty ==
    \/ \E text \in {PlainInput, GreetingInput}, saved \in Faults : FaultyChat(text, saved)
    \/ Returns(WithOutput(LongOutput))
    \/ \E saved \in Faults : FaultyExit(saved)

SpecFaulty == InitFaulty /\ [][NextFaulty]_vars

\* the store f as caller p's call found it on disk
FoundOnDisk(p, f) == call[p].before.files[f]

\* f was absent or unparsable when caller p's call began
Unreadable(p, f) == ~FoundOnDisk(p, f).exists \/ ~FoundOnDisk(p, f).parses

\* C22: a store whose file is absent or does not parse loads as the empty
\* mapping, and a save that fails is swallowed: the call goes on as with
\* working stores.  A call that finds the usage file unreadable counts from 1,
\* one that finds the profile file unreadable annotates nothing; every call
\* ends with one of the regular outcomes, and an answered call returns the
\* reasoning step's output and keeps its turns in memory whether or not the
\* memory file could be written.
C22_PersistenceFailuresSwallowed ==
    \A p \in Callers :
        Done(p) =>
            /\ ret[p].outcome \in {"rate_limited", "clarification", "greeting",
                                   "answer"}
            /\ (call[p].invoked /\ Unreadable(p, USAGE_STATS))
                   => call[p].total_requests = 1
            /\ (call[p].invoked /\ ~Unreadable(p, USAGE_STATS))
                   => call[p].total_requests =
                          CountIn(FoundOnDisk(p, USAGE_STATS).data, call[p].session_id) + 1
            /\ (call[p].invoked /\ Unreadable(p, USER_PROFILES))
                   => call[p].enhanced_input = call[p].user_input
            /\ ret[p].outcome = "answer" =>
                   /\ ret[p].text = LongOutput
                   /\ Last(HistoryOf(user_memory, call[p].session_id), 2)
                          = << <<"human", call[p].user_input>>,
                               <<"assistant", LongOutput>> >>

\* an answered call that found the usage file unparsable and whose memory
\* file was cut short
C22_Witness ==
    /\ Done("main") /\ ret["main"].outcome = "answer"
    /\ FoundOnDisk("main", USAGE_STATS).exists
    /\ ~FoundOnDisk("main", USAGE_STATS).parses
    /\ call["main"].total_requests = 1
    /\ files[MEMORY_FILE].exists /\ ~files[MEMORY_FILE].parses

\* caller p begins a chat call in this step
Begins(p) == pc[p] = "idle" /\ call'[p] # call[p]

\* caller p's call that begins in this step and its previous call were both
\* counted by update_usage_stats, for the same session
CountedAgain(p) ==
    /\ Begins(p)
    /\ call[p].total_requests > 0 /\ call'[p].total_requests > 0
    /\ call'[p].session_id = call[p].session_id

\* C25: after a failed save the in-memory mapping stays authoritative: a later
\* counted call of the session continues total_requests from the value the
\* previous counted call reached, a later call works on the history held in
\* memory, and an admitted call adds its instant to the window held in memory.
C25_InMemoryStaysAuthoritative ==
    [][\A p \in Callers :
          /\ CountedAgain(p) => call'[p].total_requests = call[p].total_requests + 1
          /\ (Begins(p) /\ call'[p].total_requests > 0)
                 => call'[p].chat_history = HistoryOf(user_memory, call'[p].session_id)
          /\ (Begins(p) /\ ret'[p].outcome # "rate_limited")
                 => WindowOf(request_times', call'[p].session_id)
                        = Append(Prune(WindowOf(request_times, call'[p].session_id), now),
                                 now)]_vars

\* C26: a session's total_requests never decreases from one counted call to
\* the next, also when the usage file is found absent or unparsable.
C26_TotalRequestsNeverDecreases ==
    [][\A p \in Callers :
          CountedAgain(p) => call'[p].total_requests >= call[p].total_requests]_vars

\* message is the text of a human turn of history
HumanTurnOf(history, message) ==
    \E i \in 1..Len(history) : history[i] = <<"human", message>>

\* the limitations recorded for s in the profile file, none without a record
LimitationsOf(file, s) ==
    IF s \in DOMAIN Load(file) THEN ProfileOf(file, s).limitations ELSE <<>>

\* C27: a chat call builds the context window and the profile from the turns
\* stored before the call.  A message that a call records as a limitation is a
\* human turn of the history stored when the call began, and a human turn
\* enters the history only in the step that returns an answer, so a message
\* reaches the profile only on a call after the one that carried it, and only
\* if that one succeeded.  The window passed to the reasoning step is that of
\* the stored turns, without the message being sent.
C27_OnlyStoredTurnsUsed ==
    [][/\ \A s \in Sessions :
              \A i \in 1..Len(LimitationsOf(files'[USER_PROFILES], s)) :
                  LET message == LimitationsOf(files'[USER_PROFILES], s)[i]
                  IN  \/ \E k \in 1..Len(LimitationsOf(files[USER_PROFILES], s)) :
                             LimitationsOf(files[USER_PROFILES], s)[k] = message
                      \/ HumanTurnOf(HistoryOf(user_memory, s), message)
       /\ user_memory' # user_memory
              => \E p \in Callers :
                     /\ pc[p] = "exiting" /\ call[p].returned
                     /\ ret'[p].outcome = "answer"
       /\ \A p \in Callers :
              (Begins(p) /\ pc'[p] = "invoking") =>
                  LET stored == HistoryOf(user_memory, call'[p].session_id)
                  IN  /\ user_memory' = user_memory
                      /\ call'[p].formatted_history
                             = prepare_chat_history(stored, max_messages)
                      /\ ~HumanTurnOf(stored, call'[p].user_input)
                             => /\ \A i \in 1..Len(call'[p].formatted_history) :
                                       call'[p].formatted_history[i].content
                                           # call'[p].user_input
                                /\ call'[p].enhanced_input
                                       # Enhanced(call'[p].user_input,
                                                  <<call'[p].user_input>>)]_vars

\* the knee message of an answered call annotates the next call
C27_Witness ==
    /\ pc["main"] = "invoking"
    /\ call["main"].user_input = PlainInput
    /\ HumanTurnOf(call["main"].chat_history, KneeInput)
    /\ LimitationsOf(files[USER_PROFILES], "user_001") = <<KneeInput>>
    /\ call["main"].enhanced_input = Enhanced(PlainInput, <<KneeInput>>)

\* no element of list occurs twice
NoDuplicates(list) ==
    \A i, j \in 1..Len(list) : list[i] = list[j] => i = j

ExperienceLevels ==
    {<<"u", "n", "k", "n", "o", "w", "n">>,
     <<"b", "e", "g", "i", "n", "n", "e", "r">>,
     <<"i", "n", "t", "e", "r", "m", "e", "d", "i", "a", "t", "e">>,
     <<"a", "d", "v", "a", "n", "c", "e", "d">>}

CanonicalGoals ==
    {<<"m", "u", "s", "c", "l", "e", " ", "g", "a", "i", "n">>,
     <<"s", "t", "r", "e", "n", "g", "t", "h">>,
     <<"f", "a", "t", " ", "l", "o", "s", "s">>,
     <<"e", "n", "d", "u", "r", "a", "n", "c", "e">>,
     <<"c", "a", "r", "d", "i", "o">>}

WellFormed(profile) ==
    /\ profile.experience_level \in ExperienceLevels
    /\ NoDuplicates(profile.goals)
    /\ \A i \in 1..Len(profile.goals) : profile.goals[i] \in CanonicalGoals
    /\ NoDuplicates(profile.equipment)
    /\ \A i \in 1..Len(profile.equipment) :
           profile.equipment[i] \in Range(equipment_keywords)
    /\ NoDuplicates(profile.limitations)

\* C28: every profile in the profile store is well-formed: its level is one
\* of unknown, beginner, intermediate, advanced; its goals are canonical goals
\* without duplicates, also when two keywords map to the same goal; its
\* equipment is a duplicate-free sequence of the equipment keywords; no
\* message occurs twice in its limitations.
C28_ProfilesWellFormed ==
    \A s \in DOMAIN Load(files[USER_PROFILES]) :
        WellFormed(ProfileOf(files[USER_PROFILES], s))

\* "lose weight" and "fat loss" in one message, sent again after the knee
\* message with "lose weight": fat loss is recorded once
C28_Witness ==
    /\ ProfileProbed
    /\ probe.args[2] = <<Said(FatLossMsg)>>
    /\ "user_001" \in DOMAIN probe.before
    /\ probe.before["user_001"].goals = <<<<"f", "a", "t", " ", "l", "o", "s", "s">>>>
    /\ Len(probe.before["user_001"].limitations) = 2
    /\ ProfileOf(files[USER_PROFILES], "user_001").goals
           = <<<<"f", "a", "t", " ", "l", "o", "s", "s">>>>

-----------------------------------------------------------------------------
(* One session talking from an empty memory until its history is truncated; *)
(* a caller turned away by the limiter may wait for a whole rate window     *)

InitAlternate == StartUp(NoFiles)

AlternateChat ==
    /\ CallsLeft(AlternateCalls) /\ Sequential("main")
    /\ ChatStart("main", "user_001", PlainInput, AllSaved)

\* turned away by the limiter, the caller waits until the window has passed
AlternatePause ==
    /\ pc["main"] = "idle" /\ ret["main"].outcome = "rate_limited"
    /\ TimeLeft(window * TicksPerSecond)
    /\ Tick(window * TicksPerSecond)

NextAlternate ==
    \/ AlternateChat
    \/ Returns(WithOutput(ShortOutput))
    \/ Raises(FailureText)
    \/ Exit
    \/ AlternatePause

SpecAlternate == InitAlternate /\ [][NextAlternate]_vars

\* history has even length and its turns are human, assistant, human, ...
Alternates(history) ==
    /\ Len(history) % 2 = 0
    /\ \A i \in 1..Len(history) :
           history[i][1] = (IF i % 2 = 1 THEN "human" ELSE "assistant")

\* C29: starting from an empty memory store, every session's stored history,
\* in memory and in the memory file, has even length and alternates human,
\* assistant, beginning with a human turn, and is still so after truncation
\* to the last 50 entries.
C29_HistoryAlternates ==
    /\ \A s \in DOMAIN user_memory :
           /\ Alternates(user_memory[s])
           /\ Len(user_memory[s]) <= MemoryCap
    /\ \A s \in DOMAIN Load(files[MEMORY_FILE]) :
           Alternates(Load(files[MEMORY_FILE])[s])

\* an answered call that began with a full history
C29_Witness ==
    /\ Done("main") /\ ret["main"].outcome = "answer"
    /\ Len(call["main"].chat_history) = MemoryCap
    /\ Len(HistoryOf(user_memory, "user_001")) = MemoryCap
    /\ HistoryOf(user_memory, "user_001")[MemoryCap] = <<"assistant", ShortOutput>>

\* caller p takes a step of its chat call
Acts(p) == call'[p] # call[p] \/ pc'[p] # pc[p]

\* what mapping holds for session s, nothing without a record
RecordIn(mapping, s) == IF s \in DOMAIN mapping THEN <<mapping[s]>> ELSE <<>>

\* C30: a step of a chat call for one session leaves every other session's
\* history, rate window, usage record and profile as they were, in memory and
\* in the backing files.
C30_SessionsIsolated ==
    [][\A p \in Callers :
          Acts(p) =>
              \A other \in Sessions \ {call'[p].session_id} :
                  /\ RecordIn(user_memory', other) = RecordIn(user_memory, other)
                  /\ RecordIn(request_times', other) = RecordIn(request_times, other)
                  /\ \A f \in FileNames :
                         RecordIn(Load(files'[f]), other)
                             = RecordIn(Load(files[f]), other)]_vars

-----------------------------------------------------------------------------
(* The stores' values as Python holds them and as JSON text holds them *)

PyStr(text) == [t |-> "str", v |-> text]
PyInt(n) == [t |-> "int", v |-> n]
PyFloat(n) == [t |-> "float", v |-> n]
PyList(items) == [t |-> "list", v |-> items]
PyTuple(items) == [t |-> "tuple", v |-> items]
PyDict(entries) == [t |-> "dict", v |-> entries]

RECURSIVE PyEq(_, _)
\* a == b in Python: numbers by value, a tuple never equals a list
PyEq(a, b) ==
    IF a.t \in {"int", "float"} /\ b.t \in {"int", "float"} THEN a.v = b.v
    ELSE IF a.t # b.t THEN FALSE
    ELSE IF a.t = "str" THEN a.v = b.v
    ELSE IF a.t = "dict"
    THEN /\ DOMAIN a.v = DOMAIN b.v
         /\ \A k \in DOMAIN a.v : PyEq(a.v[k], b.v[k])
    ELSE /\ Len(a.v) = Len(b.v)
         /\ \A i \in 1..Len(a.v) : PyEq(a.v[i], b.v[i])

RECURSIVE dump(_)
\* json.dump(x, f): the document written; lists and tuples both become arrays
dump(x) ==
    IF x.t = "str" THEN [j |-> "string", v |-> x.v]
    ELSE IF x.t = "int" THEN [j |-> "integer", v |-> x.v]
    ELSE IF x.t = "float" THEN [j |-> "real", v |-> x.v]
    ELSE IF x.t = "dict"
    THEN [j |-> "object", v |-> [k \in DOMAIN x.v |-> dump(x.v[k])]]
    ELSE [j |-> "array", v |-> [i \in 1..Len(x.v) |-> dump(x.v[i])]]

RECURSIVE json_load(_)
\* json.load(f) of a document: every array comes back as a list
json_load(d) ==
    IF d.j = "string" THEN PyStr(d.v)
    ELSE IF d.j = "integer" THEN PyInt(d.v)
    ELSE IF d.j = "real" THEN PyFloat(d.v)
    ELSE IF d.j = "object"
    THEN PyDict([k \in DOMAIN d.v |-> json_load(d.v[k])])
    ELSE PyList([i \in 1..Len(d.v) |-> json_load(d.v[i])])

\* {k: [float(t) for t in v] for k, v in data.items()}
Floats(data) ==
    PyDict([k \in DOMAIN data.v |->
               PyList([i \in 1..Len(data.v[k].v) |-> PyFloat(data.v[k].v[i].v)])])

\* load_memory / load_user_profiles / load_usage_stats / load_rate_limits of a
\* file holding document d
LoadStore(store, d) ==
    IF store = RATE_LIMIT_FILE THEN Floats(json_load(d)) ELSE json_load(d)

\* a turn as chat appends it, and as load_memory returned it at startup
NewTurn(role, msg) == PyTuple(<<PyStr(role), PyStr(msg)>>)
OldTurn(role, msg) == PyList(<<PyStr(role), PyStr(msg)>>)

\* a store's mapping with the same value for each of the given sessions
ForSessions(S, value) == PyDict([s \in S |-> value])

SessionSets == {{}, {"user_001"}, {"user_001", "user_002"}}

\* user_memory: histories of turns appended in this run or loaded at startup
MemoryValues ==
    {PyList(h) :
        h \in SeqsUpTo({NewTurn("human", <<"a">>), NewTurn("assistant", <<"b">>),
                        OldTurn("human", <<"a">>), OldTurn("assistant", <<"b">>)},
                       RoundTripLen)}

\* profiles as extract_user_context builds and reloads them
ProfileValues ==
    {PyDict([k \in {"goals", "experience_level", "equipment", "limitations",
                    "preferences", "last_updated"} |->
                IF k = "goals" THEN PyList(goals)
                ELSE IF k = "experience_level" THEN PyStr(<<"unknown">>)
                ELSE IF k = "equipment" THEN PyList(<<>>)
                ELSE IF k = "limitations" THEN PyList(limitations)
                ELSE IF k = "preferences" THEN PyList(<<>>)
                ELSE PyStr(<<"0">>)]) :
        goals \in SeqsUpTo({PyStr(<<"cardio">>)}, 1),
        limitations \in SeqsUpTo({PyStr(BeginnerMsg), PyStr(KneeAgainMsg)}, RoundTripLen)}

\* usage records as update_usage_stats builds and reloads them
UsageValues ==
    {PyDict([k \in {"total_requests", "first_seen", "last_seen"} |->
                IF k = "total_requests" THEN PyInt(n) ELSE PyStr(<<"0">>)]) :
        n \in 1..(RoundTripLen + 1)}

\* request_times: lists of time.time() values
RateValues == {PyList(w) : w \in SeqsUpTo({PyFloat(0), PyFloat(1)}, RoundTripLen)}

\* save, load, save again: the document written, the mapping loaded from it
\* and the document written from that mapping
RoundTrip(store, mapping) ==
    /\ probe.fn = "none" /\ probe.args = <<store, mapping>>
    /\ probe' = [fn |-> "round_trip", args |-> <<store, mapping>>, at |-> now,
                 before |-> <<>>,
                 result |-> [written |-> dump(mapping),
                             loaded |-> LoadStore(store, dump(mapping)),
                             rewritten |-> dump(LoadStore(store, dump(mapping)))]]
    /\ UNCHANGED <<now, request_times, user_memory, files, alarm, sigalrm, pc, call,
                   ret, tally>>

InitRoundTrip ==
    \E S \in SessionSets :
        \/ \E x \in MemoryValues : Given(NoFiles, <<MEMORY_FILE, ForSessions(S, x)>>)
        \/ \E x \in ProfileValues : Given(NoFiles, <<USER_PROFILES, ForSessions(S, x)>>)
        \/ \E x \in UsageValues : Given(NoFiles, <<USAGE_STATS, ForSessions(S, x)>>)
        \/ \E x \in RateValues : Given(NoFiles, <<RATE_LIMIT_FILE, ForSessions(S, x)>>)

NextRoundTrip == RoundTrip(probe.args[1], probe.args[2])

SpecRoundTrip == InitRoundTrip /\ [][NextRoundTrip]_vars

\* C23: for each of the four stores, saving a mapping and loading it again
\* gives a mapping equal to the one saved, and saving the loaded mapping
\* writes the same document.
C23_RoundTripEqual ==
    probe.fn = "round_trip" =>
        /\ PyEq(probe.result.loaded, probe.args[2])
        /\ probe.result.rewritten = probe.result.written

-----------------------------------------------------------------------------
(* The two input checks called directly *)

\* characters the short texts are typed from
TypedChars == {"h", "i", "I", " ", "1", "2", "\n"}

HelloText == <<"H", "e", "l", "l", "o">>
HelloThereText == <<"H", "e", "l", "l", "o", " ", "t", "h", "e", "r", "e">>
PaddedGreetingText == <<" ", "G", "o", "o", "d", " ", "E", "v", "e", "n", "i", "n", "g", "\n">>
GoodMorningText == <<"g", "o", "o", "d", " ", "m", "o", "r", "n", "i", "n", "g">>

\* every short text, and the spec's examples
ValidatedTexts ==
    SeqsUpTo(TypedChars, TextLen)
        \cup {HelloText, HelloThereText, PaddedGreetingText, GoodMorningText,
              PlainInput, GreetingInput, KneeInput}

Validate(text) ==
    /\ probe.fn = "none" /\ probe.args = <<text>>
    /\ probe' = [fn |-> "validate", args |-> <<text>>, at |-> now, before |-> <<>>,
                 result |-> [valid |-> is_valid_input(text),
                             greeting |-> is_greeting(text)]]
    /\ UNCHANGED <<now, request_times, user_memory, files, alarm, sigalrm, pc, call,
                   ret, tally>>

InitValidate == \E text \in ValidatedTexts : Given(NoFiles, <<text>>)

NextValidate == Validate(probe.args[1])

SpecValidate == InitValidate /\ [][NextValidate]_vars

RECURSIVE DropLeading(_)
\* text without its leading whitespace
DropLeading(text) ==
    IF text # <<>> /\ isspace(Head(text)) THEN DropLeading(Tail(text)) ELSE text

RECURSIVE DropTrailing(_)
\* text without its trailing whitespace
DropTrailing(text) ==
    IF text # <<>> /\ isspace(text[Len(text)])
    THEN DropTrailing(SubSeq(text, 1, Len(text) - 1))
    ELSE text

Trimmed(text) == DropTrailing(DropLeading(text))

\* the fixed greeting set, as lower-case words
GreetingWords ==
    {<<"h", "i">>,
     <<"h", "e", "l", "l", "o">>,
     <<"h", "e", "y">>,
     <<"h", "i", "i">>,
     <<"h", "a", "i">>,
     <<"y", "o">>,
     <<"g", "o", "o", "d", " ", "m", "o", "r", "n", "i", "n", "g">>,
     <<"g", "o", "o", "d", " ", "a", "f", "t", "e", "r", "n", "o", "o", "n">>,
     <<"g", "o", "o", "d", " ", "e", "v", "e", "n", "i", "n", "g">>}

\* text with every upper-case letter replaced by its lower-case letter
LowerCased(text) ==
    [i \in 1..Len(text) |->
        IF \E k \in 1..26 : UpperCase[k] = text[i]
        THEN LowerCase[CHOOSE k \in 1..26 : UpperCase[k] = text[i]]
        ELSE text[i]]

HasLetter(text) == \E i \in 1..Len(text) : text[i] \in Range(UpperCase) \cup Range(LowerCase)

ValidateProbed == probe.fn = "validate"

\* C24: is_valid_input(text) is true iff the trimmed text has at least 2
\* characters and the text contains a letter ("", "a", "12" invalid, "hi"
\* valid); is_greeting(text) is true iff the trimmed, lower-cased text is one of
\* the fixed greetings ("Hello" is a greeting, "Hello there" is not).
C24_ValidAndGreetingIff ==
    ValidateProbed =>
        LET text == probe.args[1]
        IN  /\ probe.result.valid = (Len(Trimmed(text)) >= 2 /\ HasLetter(text))
            /\ probe.result.greeting = (LowerCased(Trimmed(text)) \in GreetingWords)
            /\ text \in {<<>>, <<"i">>, <<"1", "2">>} => ~probe.result.valid
            /\ text = <<"h", "i">> => probe.result.valid
            /\ text = HelloText => probe.result.greeting
            /\ text = HelloThereText => ~probe.result.greeting

C24_Witness ==
    /\ ValidateProbed
    /\ probe.args[1] = PaddedGreetingText
    /\ probe.result.valid
    /\ probe.result.greeting

-----------------------------------------------------------------------------
(* The shape of the rate windows and of the context window *)

\* times is in non-decreasing order
NonDecreasing(times) ==
    \A i, j \in 1..Len(times) : i <= j => times[i] <= times[j]

\* C31: starting from an empty rate window, under a clock that never runs
\* backwards, every session's timestamp sequence has at most max_requests
\* elements in non-decreasing order; when a call is rejected the sequence is
\* not empty and its first element, the one the wait time is computed from,
\* is its oldest timestamp.
C31_WindowBoundedAndOrdered ==
    /\ \A s \in DOMAIN request_times :
           /\ Len(request_times[s]) <= max_requests
           /\ NonDecreasing(request_times[s])
    /\ (RateProbed /\ ~probe.result.allowed) =>
           LET retained == WindowOf(request_times, probe.args[1])
           IN  /\ retained # <<>>
               /\ \A i \in 1..Len(retained) : retained[1] <= retained[i]
               /\ probe.result.message
                      = RateLimitMessage(int(window * TicksPerSecond
                                                 - (probe.at - retained[1]),
                                             TicksPerSecond))

\* a call rejected on a full window whose timestamps are not all the same
C31_Witness ==
    /\ RateProbed /\ ~probe.result.allowed
    /\ Len(WindowOf(request_times, probe.args[1])) = max_requests
    /\ WindowOf(request_times, probe.args[1])[1] = 0
    /\ WindowOf(request_times, probe.args[1])[max_requests] = probe.at
    /\ probe.at = window * TicksPerSecond - 1

\* the positions of out that hold a summary message, for histories of up to
\* most turns
SummaryAt(out, most) ==
    {i \in 1..Len(out) :
        \E n \in 0..most :
            out[i] = [type |-> "AIMessage",
                      content |-> SummaryHead \o str(n) \o SummaryTail]}

\* the number of turns a summary message says were left out
StatedCount(msg, most) ==
    CHOOSE n \in 0..most : msg.content = SummaryHead \o str(n) \o SummaryTail

\* C32: for every history and every max_messages >= 0, 0 included,
\* prepare_chat_history returns at most max_messages messages made from stored
\* turns and at most one summary message, and the count the summary states
\* plus the number of messages made from turns is the length of the history.
C32_NothingDroppedSilently ==
    HistoryProbed =>
        LET history == probe.args[1]
            limit == probe.args[2]
            out == probe.result
            summaries == SummaryAt(out, Len(history))
            stated == IF summaries = {} THEN 0
                      ELSE StatedCount(out[CHOOSE i \in summaries : TRUE], Len(history))
            from_turns == Len(out) - Cardinality(summaries)
        IN  /\ Cardinality(summaries) <= 1
            /\ from_turns <= limit
            /\ stated + from_turns = Len(history)

====
